---- MODULE Spec2Model ----
(***************************************************************************)
(* The Pig game server: the game state machine (package game), the match   *)
(* actor with its dispatch loop and mailboxes (server.Match), the          *)
(* connections' pumps (HandleWebSocket, readPump, writePump) and the match *)
(* directory (server.MatchManager).                                        *)
(*                                                                         *)
(* Spec    : one match actor, its connections and its mailboxes.           *)
(* SpecGame: one match actor whose loop handles each join, leave and       *)
(*           action as soon as it is submitted (mailboxes left out), with  *)
(*           more participants and more actions.                           *)
(* SpecDir : the directory with several matches, each with its own clock   *)
(*           and its own loop (joins of connections that looked the match  *)
(*           up earlier, leaves, actions, broadcasts, ticks), and the      *)
(*           cleanup routine's sweep, entry by entry under mm.mu.          *)
(* SpecApi : SpecDir with RemoveMatch called as well.                      *)
(* SpecPig : the game alone, its methods called in any order.              *)
(* SpecLocks: the locks alone (directory, match, game), taken and released *)
(*           by the loops and by the directory's callers as the code does. *)
(* SpecFair, SpecDirFair: Spec with a ticker that keeps firing, SpecDir    *)
(*           with time that goes on and a cleanup routine that goes on     *)
(*           whenever the locks it asks for are free.                      *)
(*                                                                         *)
(* Indices into game.Players are 0-based as in the Go code; the TLA+       *)
(* sequence holding the list is read at index + 1.                         *)
(* Time. The code keeps m.LastActivityAt and only ever reads               *)
(* time.Since(m.LastActivityAt), to compare it with 5 minutes (Run) and    *)
(* with 30 minutes (the cleanup routine). The model keeps m.Idle, the      *)
(* number of the two that the difference exceeds: 0 from the activity (a   *)
(* handler's `m.LastActivityAt = time.Now()`) up to five minutes, 1 up to  *)
(* thirty, 2 beyond. The game's own LastActivityAt and CreatedAt are       *)
(* written and never read by the server, and are left out.                 *)
(***************************************************************************)
EXTENDS Integers, Sequences, FiniteSets, TLC

\* ------------------------------------------------------------------ bounds
\* Distinct participant ids that connections present.
NumIds == 2
\* Connections opened over the life of the match.
MaxConns == 2
\* Actions submitted over the life of the match.
MaxActions == 2
\* Connections whose writePump returns over the life of the match.
MaxReturns == 1
\* Actions submitted and pumps returned over the life of the match, together.
MaxInputs == 2
\* The same three bounds for SpecGame, which has no mailboxes and affords more.
GameIds == 3
GameConns == 3
GameActions == 3
\* For SpecPig: the distinct participant ids its callers use (one more than
\* the game admits) and the calls made over the life of the game.
PigIds == 5
PigCalls == 9
\* Capacity of a connection's Send mailbox (256 in HandleWebSocket).
SendCap == 1
\* Capacity of the Broadcast mailbox (256 in NewMatch).
BroadcastCap == 2
\* Capacity of the PlayerActions mailbox (256 in NewMatch).
ActionsCap == 2
\* The winning score the match is created with (100 in the REST handlers).
WinScore == 6
\* Matches created over the life of the directory, and the distinct
\* participant ids that connect to one match.
MaxMatches == 2
DirIds == 3
\* Participants admitted over the life of the directory, all matches together.
DirAdmitted == 3
\* SpecDir: the connections that have looked a match up and whose join its
\* loop has not handled yet, the joins, leaves and actions handled over the
\* life of the directory, and the capacity of a match's Broadcast mailbox
\* (256 in NewMatch).
DirPending == 1
DirOps == 3
DirBroadcastCap == 2
\* SpecLocks: the matches, each with its loop, and the goroutines that call
\* the directory at the same time.
LockMatches == 1
LockCallers == 2

\* --------------------------------------------------------- program constants
DieFaces == 6
GameMaxPlayers == 4
MinPlayers == 2
MaxPlayers == 4
DefaultWinningScore == 100
\* The two lengths of time that time.Since(m.LastActivityAt) is compared
\* with: 5 minutes (Run) and 30 minutes (the cleanup routine of main), each
\* as the largest value of m.Idle that does not exceed it.
IdleGrace == 0
SweepTimeout == 1

PlayerIds == 1..NumIds
ConnIds == 1..MaxConns
GamePlayerIds == 1..GameIds
GameConnIds == 1..GameConns
DirPlayerIds == 1..DirIds
\* The faces the die shows.
Faces == 1..DieFaces
\* `Winner: nil`, and the PlayerID of a message that names no participant.
NoPlayer == 0

ErrNil == "nil"
ErrGameNotStarted == "game has not started yet"
ErrGameOver == "game is already over"
ErrNotPlayerTurn == "it is not this player's turn"
ErrInvalidPlayer == "invalid player"
ErrGameFull == "game is full"
ErrNotEnoughPlayers == "not enough players to start"
ErrPlayerInGame == "player already in game"

ActionRoll == "roll"
ActionHold == "hold"
\* An action string that is neither of the two: readPump forwards every
\* non-empty one.
ActionOther == "quit"
ActionQuit == "quit"

TypeGameUpdate == "game_update"
TypeError == "error"
TypeJoined == "joined"
TypePlayerLeft == "player_left"
TypeGameStart == "game_start"
TypeGameOver == "game_over"

\* ------------------------------------------------------------------ models
NewPlayer(id) == [ID |-> id, Score |-> 0, IsActive |-> TRUE]

NewGameState(winningScore) ==
    [Players |-> <<>>, CurrentPlayer |-> 0, TurnScore |-> 0, LastRoll |-> 0,
     WinningScore |-> winningScore, Winner |-> NoPlayer, IsGameOver |-> FALSE]

NewMessage(msgType, playerID, error) ==
    [Type |-> msgType, PlayerID |-> playerID, Error |-> error]

\* -------------------------------------------------------------------- game
NewPigGame(winningScore) ==
    NewGameState(IF winningScore <= 0 THEN DefaultWinningScore ELSE winningScore)

IndexOf(g, playerID) ==
    CHOOSE i \in 1..Len(g.Players) :
        /\ g.Players[i].ID = playerID
        /\ \A j \in 1..(i - 1) : g.Players[j].ID # playerID

HasPlayer(g, playerID) == \E i \in 1..Len(g.Players) : g.Players[i].ID = playerID

ActiveIndexes(g) == {i \in 1..Len(g.Players) : g.Players[i].IsActive}

GetActivePlayerCount(g) == Cardinality(ActiveIndexes(g))

GetPlayerCount(g) == Len(g.Players)

\* AddPlayer that lets a departed participant come back under its id.
AddPlayer_Reactivate(g, playerID) ==
    IF g.IsGameOver THEN [state |-> g, err |-> ErrGameOver]
    ELSE IF HasPlayer(g, playerID)
         THEN IF g.Players[IndexOf(g, playerID)].IsActive
              THEN [state |-> g, err |-> ErrPlayerInGame]
              ELSE [state |-> [g EXCEPT !.Players[IndexOf(g, playerID)].IsActive = TRUE],
                    err |-> ErrNil]
    ELSE IF Len(g.Players) >= GameMaxPlayers THEN [state |-> g, err |-> ErrGameFull]
    ELSE [state |-> [g EXCEPT !.Players = Append(@, NewPlayer(playerID))],
          err |-> ErrNil]

\* AddPlayer that counts only the active participants against the capacity.
AddPlayer_CountActive(g, playerID) ==
    IF g.IsGameOver THEN [state |-> g, err |-> ErrGameOver]
    ELSE IF GetActivePlayerCount(g) >= GameMaxPlayers
         THEN [state |-> g, err |-> ErrGameFull]
    ELSE IF HasPlayer(g, playerID) THEN [state |-> g, err |-> ErrPlayerInGame]
    ELSE [state |-> [g EXCEPT !.Players = Append(@, NewPlayer(playerID))],
          err |-> ErrNil]

AddPlayer(g, playerID) ==
    IF g.IsGameOver THEN [state |-> g, err |-> ErrGameOver]
    ELSE IF Len(g.Players) >= GameMaxPlayers THEN [state |-> g, err |-> ErrGameFull]
    ELSE IF HasPlayer(g, playerID) THEN [state |-> g, err |-> ErrPlayerInGame]
    ELSE [state |-> [g EXCEPT !.Players = Append(@, NewPlayer(playerID))],
          err |-> ErrNil]

RECURSIVE nextTurnScan(_, _, _)
nextTurnScan(g, startIdx, i) ==
    IF i >= Len(g.Players) THEN [g EXCEPT !.LastRoll = 0]
    ELSE LET cur == (g.CurrentPlayer + 1) % Len(g.Players)
             g1 == [g EXCEPT !.CurrentPlayer = cur]
         IN  IF g1.Players[cur + 1].IsActive THEN [g1 EXCEPT !.LastRoll = 0]
             ELSE IF cur = startIdx /\ i = Len(g.Players) - 1
                  THEN [g1 EXCEPT !.IsGameOver = TRUE]
                  ELSE nextTurnScan(g1, startIdx, i + 1)

\* nextTurn that moves to the neighbouring position, active or not.
nextTurn_Neighbour(g) ==
    IF Len(g.Players) = 0 THEN g
    ELSE [g EXCEPT !.CurrentPlayer = (@ + 1) % Len(g.Players), !.LastRoll = 0]

nextTurn(g) ==
    IF Len(g.Players) = 0 THEN g ELSE nextTurnScan(g, g.CurrentPlayer, 0)

\* RemovePlayer that leaves the turn with a turn holder who departs.
RemovePlayer_KeepTurn(g, playerID) ==
    IF ~HasPlayer(g, playerID) THEN [state |-> g, err |-> ErrInvalidPlayer]
    ELSE LET i == IndexOf(g, playerID)
             g1 == [g EXCEPT !.Players[i].IsActive = FALSE]
             activeCount == GetActivePlayerCount(g1)
             firstActive == CHOOSE a \in ActiveIndexes(g1) :
                                \A b \in ActiveIndexes(g1) : a <= b
             g2 == IF activeCount <= 1 /\ Len(g1.Players) > 1
                   THEN [g1 EXCEPT !.IsGameOver = TRUE,
                                   !.Winner = IF activeCount > 0
                                              THEN g1.Players[firstActive].ID
                                              ELSE @]
                   ELSE g1
         IN  [state |-> g2, err |-> ErrNil]

\* RemovePlayer that replaces the departing participant by a zeroed record.
RemovePlayer_ZeroScore(g, playerID) ==
    IF ~HasPlayer(g, playerID) THEN [state |-> g, err |-> ErrInvalidPlayer]
    ELSE LET i == IndexOf(g, playerID)
             g1 == [g EXCEPT !.Players[i] =
                        [ID |-> playerID, Score |-> 0, IsActive |-> FALSE]]
             activeCount == GetActivePlayerCount(g1)
             firstActive == CHOOSE a \in ActiveIndexes(g1) :
                                \A b \in ActiveIndexes(g1) : a <= b
             g2 == IF activeCount <= 1 /\ Len(g1.Players) > 1
                   THEN [g1 EXCEPT !.IsGameOver = TRUE,
                                   !.Winner = IF activeCount > 0
                                              THEN g1.Players[firstActive].ID
                                              ELSE @]
                   ELSE g1
             g3 == IF i - 1 = g2.CurrentPlayer THEN nextTurn(g2) ELSE g2
         IN  [state |-> g3, err |-> ErrNil]

\* RemovePlayer that ends the game only when no active participant remains.
RemovePlayer_EndAtZero(g, playerID) ==
    IF ~HasPlayer(g, playerID) THEN [state |-> g, err |-> ErrInvalidPlayer]
    ELSE LET i == IndexOf(g, playerID)
             g1 == [g EXCEPT !.Players[i].IsActive = FALSE]
             activeCount == GetActivePlayerCount(g1)
             g2 == IF activeCount < 1 /\ Len(g1.Players) > 1
                   THEN [g1 EXCEPT !.IsGameOver = TRUE]
                   ELSE g1
             g3 == IF i - 1 = g2.CurrentPlayer THEN nextTurn(g2) ELSE g2
         IN  [state |-> g3, err |-> ErrNil]

\* RemovePlayer that reports success for an id the list does not hold.
RemovePlayer_SilentOnUnknown(g, playerID) ==
    IF ~HasPlayer(g, playerID) THEN [state |-> g, err |-> ErrNil]
    ELSE LET i == IndexOf(g, playerID)
             g1 == [g EXCEPT !.Players[i].IsActive = FALSE]
             activeCount == GetActivePlayerCount(g1)
             firstActive == CHOOSE a \in ActiveIndexes(g1) :
                                \A b \in ActiveIndexes(g1) : a <= b
             g2 == IF activeCount <= 1 /\ Len(g1.Players) > 1
                   THEN [g1 EXCEPT !.IsGameOver = TRUE,
                                   !.Winner = IF activeCount > 0
                                              THEN g1.Players[firstActive].ID
                                              ELSE @]
                   ELSE g1
             g3 == IF i - 1 = g2.CurrentPlayer THEN nextTurn(g2) ELSE g2
         IN  [state |-> g3, err |-> ErrNil]

RemovePlayer(g, playerID) ==
    IF ~HasPlayer(g, playerID) THEN [state |-> g, err |-> ErrInvalidPlayer]
    ELSE LET i == IndexOf(g, playerID)
             g1 == [g EXCEPT !.Players[i].IsActive = FALSE]
             activeCount == GetActivePlayerCount(g1)
             firstActive == CHOOSE a \in ActiveIndexes(g1) :
                                \A b \in ActiveIndexes(g1) : a <= b
             g2 == IF activeCount <= 1 /\ Len(g1.Players) > 1
                   THEN [g1 EXCEPT !.IsGameOver = TRUE,
                                   !.Winner = IF activeCount > 0
                                              THEN g1.Players[firstActive].ID
                                              ELSE @]
                   ELSE g1
             g3 == IF i - 1 = g2.CurrentPlayer THEN nextTurn(g2) ELSE g2
         IN  [state |-> g3, err |-> ErrNil]

CanStart(g) == Len(g.Players) >= 2

\* Start that does not look at whether the game is over.
Start_IgnoreOver(g) ==
    IF Len(g.Players) < 2 THEN ErrNotEnoughPlayers ELSE ErrNil

Start(g) ==
    IF Len(g.Players) < 2 THEN ErrNotEnoughPlayers
    ELSE IF g.IsGameOver THEN ErrGameOver
    ELSE ErrNil

\* The checks of Roll and Hold without the one for a game that is over.
turnCheck_NoGameOver(g, playerID) ==
    IF Len(g.Players) < 2 THEN ErrGameNotStarted
    ELSE IF g.Players[g.CurrentPlayer + 1].ID # playerID THEN ErrNotPlayerTurn
    ELSE IF ~g.Players[g.CurrentPlayer + 1].IsActive THEN ErrInvalidPlayer
    ELSE ErrNil

\* The checks of Roll and Hold without the one for whose turn it is.
turnCheck_AnyCaller(g, playerID) ==
    IF g.IsGameOver THEN ErrGameOver
    ELSE IF Len(g.Players) < 2 THEN ErrGameNotStarted
    ELSE IF ~g.Players[g.CurrentPlayer + 1].IsActive THEN ErrInvalidPlayer
    ELSE ErrNil

\* The error Roll and Hold return before touching the state, or ErrNil.
turnCheck(g, playerID) ==
    IF g.IsGameOver THEN ErrGameOver
    ELSE IF Len(g.Players) < 2 THEN ErrGameNotStarted
    ELSE IF g.Players[g.CurrentPlayer + 1].ID # playerID THEN ErrNotPlayerTurn
    ELSE IF ~g.Players[g.CurrentPlayer + 1].IsActive THEN ErrInvalidPlayer
    ELSE ErrNil

\* Roll that, on the forfeit face, zeroes the accumulator and keeps the turn.
Roll_KeepTurn(g, playerID, roll) ==
    IF turnCheck(g, playerID) # ErrNil
    THEN [state |-> g, roll |-> 0, err |-> turnCheck(g, playerID)]
    ELSE LET g1 == [g EXCEPT !.LastRoll = roll]
         IN  IF roll = 1
             THEN [state |-> [g1 EXCEPT !.TurnScore = 0],
                   roll |-> roll, err |-> ErrNil]
             ELSE [state |-> [g1 EXCEPT !.TurnScore = @ + roll],
                   roll |-> roll, err |-> ErrNil]

\* roll is the value drawn by g.rng.Intn(6) + 1.
Roll(g, playerID, roll) ==
    IF turnCheck(g, playerID) # ErrNil
    THEN [state |-> g, roll |-> 0, err |-> turnCheck(g, playerID)]
    ELSE LET g1 == [g EXCEPT !.LastRoll = roll]
         IN  IF roll = 1
             THEN [state |-> nextTurn([g1 EXCEPT !.TurnScore = 0]),
                   roll |-> roll, err |-> ErrNil]
             ELSE [state |-> [g1 EXCEPT !.TurnScore = @ + roll],
                   roll |-> roll, err |-> ErrNil]

\* Hold that banks the accumulator and forgets to zero it before the turn passes.
Hold_KeepTurnScore(g, playerID) ==
    IF turnCheck(g, playerID) # ErrNil
    THEN [state |-> g, err |-> turnCheck(g, playerID)]
    ELSE LET cp == g.CurrentPlayer + 1
             g1 == [g EXCEPT !.Players[cp].Score = @ + g.TurnScore]
         IN  IF g1.Players[cp].Score >= g1.WinningScore
             THEN [state |-> [g1 EXCEPT !.IsGameOver = TRUE,
                                        !.Winner = g1.Players[cp].ID,
                                        !.TurnScore = 0],
                   err |-> ErrNil]
             ELSE [state |-> nextTurn(g1), err |-> ErrNil]

Hold(g, playerID) ==
    IF turnCheck(g, playerID) # ErrNil
    THEN [state |-> g, err |-> turnCheck(g, playerID)]
    ELSE LET cp == g.CurrentPlayer + 1
             g1 == [g EXCEPT !.Players[cp].Score = @ + g.TurnScore]
         IN  IF g1.Players[cp].Score >= g1.WinningScore
             THEN [state |-> [g1 EXCEPT !.IsGameOver = TRUE,
                                        !.Winner = g1.Players[cp].ID,
                                        !.TurnScore = 0],
                   err |-> ErrNil]
             ELSE [state |-> nextTurn([g1 EXCEPT !.TurnScore = 0]),
                   err |-> ErrNil]

IsGameOver(g) == g.IsGameOver

GetWinner(g) == g.Winner

\* ------------------------------------------------------------ match actor
\* A match: the game, the registry participant id -> connection, the started
\* flag and the time since the last activity.
NewMatch(winningScore) ==
    [Game |-> NewPigGame(winningScore), Players |-> [p \in {} |-> 0],
     IsStarted |-> FALSE,
     Idle |-> 0]

Registered(m) == DOMAIN m.Players

putConn(players, playerID, c) ==
    [p \in (DOMAIN players) \cup {playerID} |->
        IF p = playerID THEN c ELSE players[p]]

deleteConn(players, playerID) ==
    [p \in (DOMAIN players) \ {playerID} |-> players[p]]

\* The actions submitted so far and the pumps returned so far.
inputs(q, done, cs) ==
    Len(done) + Len(q) + Cardinality({d \in DOMAIN cs : cs[d].wp = "returned"})

\* A send the handler makes: to = 0 is m.Broadcast, to = c is the Send mailbox
\* of connection c. Both are blocking channel sends.
ToBroadcast(msg) == [to |-> 0, msg |-> msg]
ToConn(c, msg) == [to |-> c, msg |-> msg]

\* The effect of handleRegister for connection c presenting playerID:
\* the match afterwards and the sends the handler makes, in order.
handleRegister(m, c, playerID) ==
    LET m1 == [m EXCEPT !.Players = putConn(@, playerID, c), !.Idle = 0]
        add == AddPlayer(m1.Game, playerID)
    IN  IF add.err # ErrNil
        THEN [m |-> [m1 EXCEPT !.Players = deleteConn(@, playerID)],
              sends |-> <<>>, err |-> add.err]
        ELSE LET m2 == [m1 EXCEPT !.Game = add.state]
                 joined == ToConn(c, NewMessage(TypeJoined, playerID, ErrNil))
                 update == ToBroadcast(NewMessage(TypeGameUpdate, NoPlayer, ErrNil))
                 start == ToBroadcast(NewMessage(TypeGameStart, NoPlayer, ErrNil))
             IN  IF CanStart(m2.Game) /\ ~m2.IsStarted
                 THEN [m |-> [m2 EXCEPT !.IsStarted = TRUE],
                       sends |-> IF Start(m2.Game) = ErrNil
                                 THEN <<joined, update, start>>
                                 ELSE <<joined, update>>,
                       err |-> ErrNil]
                 ELSE [m |-> m2, sends |-> <<joined, update>>, err |-> ErrNil]

\* The effect of handleUnregister for connection c presenting playerID;
\* snapshot is the game state the messages carry (m.Game.GetState()).
handleUnregister(m, c, playerID) ==
    IF playerID \notin DOMAIN m.Players
    THEN [m |-> m, sends |-> <<>>, closed |-> FALSE, snapshot |-> m.Game]
    ELSE LET rem == RemovePlayer(m.Game, playerID)
             m1 == [m EXCEPT !.Players = deleteConn(@, playerID),
                             !.Idle = 0,
                             !.Game = rem.state]
             left == ToBroadcast(NewMessage(TypePlayerLeft, playerID, ErrNil))
             over == ToBroadcast(NewMessage(TypeGameOver, NoPlayer, ErrNil))
         IN  [m |-> m1,
              sends |-> IF IsGameOver(m1.Game) THEN <<left, over>> ELSE <<left>>,
              closed |-> TRUE,
              snapshot |-> m1.Game]

\* The effect of handlePlayerAction for an action of the mailbox; roll is the
\* value the die shows if the action is a roll.
handlePlayerAction(m, action, roll) ==
    LET m1 == [m EXCEPT !.Idle = 0]
        res == IF action.Action = ActionRoll
               THEN [state |-> Roll(m1.Game, action.PlayerID, roll).state,
                     err |-> Roll(m1.Game, action.PlayerID, roll).err]
               ELSE Hold(m1.Game, action.PlayerID)
    IN  IF action.Action \notin {ActionRoll, ActionHold}
        THEN [m |-> m1, sends |-> <<>>, err |-> ErrNil, known |-> FALSE]
        ELSE IF res.err # ErrNil
        THEN [m |-> m1,
              sends |-> IF action.PlayerID \in DOMAIN m1.Players
                        THEN <<ToConn(m1.Players[action.PlayerID],
                                      NewMessage(TypeError, action.PlayerID, res.err))>>
                        ELSE <<>>,
              err |-> res.err, known |-> TRUE]
        ELSE LET m2 == [m1 EXCEPT !.Game = res.state]
                 type == IF IsGameOver(m2.Game) THEN TypeGameOver ELSE TypeGameUpdate
             IN  [m |-> m2,
                  sends |-> <<ToBroadcast(NewMessage(type, action.PlayerID, ErrNil))>>,
                  err |-> ErrNil, known |-> TRUE]

\* A fan-out that ranges over every connection of the match, registered or not.
broadcastMessage_ToAll(m, cs, message) ==
    [c \in DOMAIN cs |->
        IF Len(cs[c].Send) < SendCap
        THEN [cs[c] EXCEPT !.Send = Append(@, message)]
        ELSE cs[c]]

\* broadcastMessage: a non-blocking send to every registered connection; a
\* full mailbox drops the message.
broadcastMessage(m, cs, message) ==
    [c \in DOMAIN cs |->
        IF /\ \E p \in DOMAIN m.Players : m.Players[p] = c
           /\ Len(cs[c].Send) < SendCap
        THEN [cs[c] EXCEPT !.Send = Append(@, message)]
        ELSE cs[c]]

\* The handler's sends, executed in order until one finds its channel full:
\* the sends that remain, and the mailboxes after the ones that completed.
RECURSIVE runSends(_, _, _)
runSends(sends, bc, cs) ==
    IF sends = <<>> THEN [todo |-> <<>>, Broadcast |-> bc, conns |-> cs]
    ELSE LET s == Head(sends)
         IN  IF s.to = 0
             THEN IF Len(bc) < BroadcastCap
                  THEN runSends(Tail(sends), Append(bc, s.msg), cs)
                  ELSE [todo |-> sends, Broadcast |-> bc, conns |-> cs]
             ELSE IF Len(cs[s.to].Send) < SendCap
                  THEN runSends(Tail(sends), bc,
                                [cs EXCEPT ![s.to].Send = Append(@, s.msg)])
                  ELSE [todo |-> sends, Broadcast |-> bc, conns |-> cs]

\* --------------------------------------------------------------- directory
\* `waitingRoom: nil`. A match's ID, a fresh uuid in the code, is its position
\* in the sequence of the matches created so far.
NoMatch == 0

\* The MatchManager: the keys of mm.matches (each match is stored under its
\* own ID) and mm.waitingRoom. The matches themselves live in `all`, the
\* sequence of every match created so far; a match's ID is its position.
NewMatchManager == [matches |-> {}, waitingRoom |-> NoMatch]

GetMatch(m, gameID) ==
    IF gameID \in m.matches THEN [match |-> gameID, exists |-> TRUE]
    ELSE [match |-> NoMatch, exists |-> FALSE]

\* CreateMatch that also makes the new match the waiting room.
CreateMatch_AsWaitingRoom(m, all, winningScore) ==
    LET id == Len(all) + 1
    IN  [mm |-> [matches |-> m.matches \cup {id}, waitingRoom |-> id],
         all |-> Append(all, NewMatch(winningScore)),
         match |-> id]

CreateMatch(m, all, winningScore) ==
    LET id == Len(all) + 1
    IN  [mm |-> [m EXCEPT !.matches = @ \cup {id}],
         all |-> Append(all, NewMatch(winningScore)),
         match |-> id]

\* FindOrCreateMatch that hands out the waiting room whether started or not.
FindOrCreateMatch_IgnoreStarted(m, all, winningScore) ==
    IF /\ m.waitingRoom # NoMatch
       /\ Cardinality(DOMAIN all[m.waitingRoom].Players) < MaxPlayers
    THEN [mm |-> m, all |-> all, match |-> m.waitingRoom]
    ELSE LET id == Len(all) + 1
         IN  [mm |-> [matches |-> m.matches \cup {id}, waitingRoom |-> id],
              all |-> Append(all, NewMatch(winningScore)),
              match |-> id]

FindOrCreateMatch(m, all, winningScore) ==
    IF /\ m.waitingRoom # NoMatch
       /\ ~all[m.waitingRoom].IsStarted
       /\ Cardinality(DOMAIN all[m.waitingRoom].Players) < MaxPlayers
    THEN [mm |-> m, all |-> all, match |-> m.waitingRoom]
    ELSE LET id == Len(all) + 1
         IN  [mm |-> [matches |-> m.matches \cup {id}, waitingRoom |-> id],
              all |-> Append(all, NewMatch(winningScore)),
              match |-> id]

\* RemoveMatch that deletes the entry and leaves the waiting room as it was.
RemoveMatch_KeepWaitingRoom(m, gameID) ==
    [matches |-> m.matches \ {gameID}, waitingRoom |-> m.waitingRoom]

RemoveMatch(m, gameID) ==
    [matches |-> m.matches \ {gameID},
     waitingRoom |-> IF m.waitingRoom # NoMatch /\ m.waitingRoom = gameID
                     THEN NoMatch ELSE m.waitingRoom]

\* The entries CleanupInactiveMatches deletes.
inactive(m, all, timeout) ==
    {id \in m.matches :
        \/ all[id].Idle > timeout
        \/ IsGameOver(all[id].Game) /\ Cardinality(DOMAIN all[id].Players) = 0}

\* The body of the sweep's loop that deletes the entry and leaves the waiting
\* room as it was.
CleanupInactiveMatches_KeepWaitingRoom(m, all, timeout, gameID) ==
    IF gameID \in inactive(m, all, timeout)
    THEN [matches |-> m.matches \ {gameID}, waitingRoom |-> m.waitingRoom]
    ELSE m

\* CleanupInactiveMatches, the body of its loop over mm.matches for the entry
\* gameID: the entry is deleted if it is inactive, and the waiting room is
\* cleared if it is that entry.
CleanupInactiveMatches(m, all, timeout, gameID) ==
    IF gameID \in inactive(m, all, timeout)
    THEN [matches |-> m.matches \ {gameID},
          waitingRoom |-> IF m.waitingRoom # NoMatch /\ m.waitingRoom = gameID
                          THEN NoMatch ELSE m.waitingRoom]
    ELSE m

\* ------------------------------------------------------------------- state
\* ------------------------------------------------------------------ locks
\* The goroutines of SpecLocks: thread i <= LockMatches is Run of match i, the
\* others call the directory (HTTP handlers, the cleanup routine).
LoopThreads == 1..LockMatches
CallerThreads == (LockMatches + 1)..(LockMatches + LockCallers)
ThreadIds == LoopThreads \cup CallerThreads

\* MatchManager.mu, Match.mu of match i, PigGame.mu of match i's game.
mmMu == [kind |-> "mm", id |-> 0]
matchMu(i) == [kind |-> "match", id |-> i]
gameMu(i) == [kind |-> "game", id |-> i]

\* One operation on a sync.RWMutex: Lock, RLock, Unlock or RUnlock.
LockOp(op, lock) == [op |-> op, on |-> lock]

\* A game method that takes g.mu.Lock with a deferred Unlock (AddPlayer,
\* RemovePlayer, Start, Roll, Hold), and one that takes g.mu.RLock (CanStart,
\* GetState, IsGameOver, GetWinner, GetPlayerCount).
gameWrite(i) == <<LockOp("Lock", gameMu(i)), LockOp("Unlock", gameMu(i))>>
gameRead(i) == <<LockOp("RLock", gameMu(i)), LockOp("RUnlock", gameMu(i))>>

\* The lock operations of handleRegister, in program order: m.mu.Lock,
\* AddPlayer, (rejected: return), GetState twice, CanStart, (starting: Start,
\* GetState, GetPlayerCount), deferred m.mu.Unlock.
handleRegisterLocks(i, admitted, starts) ==
    <<LockOp("Lock", matchMu(i))>> \o gameWrite(i)
    \o (IF admitted
        THEN gameRead(i) \o gameRead(i) \o gameRead(i)
             \o (IF starts THEN gameWrite(i) \o gameRead(i) \o gameRead(i) ELSE <<>>)
        ELSE <<>>)
    \o <<LockOp("Unlock", matchMu(i))>>

\* handleUnregister: m.mu.Lock, (entry exists: RemovePlayer, GetState,
\* IsGameOver, (over: GetState)), deferred m.mu.Unlock.
handleUnregisterLocks(i, exists, over) ==
    <<LockOp("Lock", matchMu(i))>>
    \o (IF exists
        THEN gameWrite(i) \o gameRead(i) \o gameRead(i)
             \o (IF over THEN gameRead(i) ELSE <<>>)
        ELSE <<>>)
    \o <<LockOp("Unlock", matchMu(i))>>

\* handlePlayerAction: m.mu.Lock and Unlock around LastActivityAt, Roll or
\* Hold, then (error: m.mu.RLock and RUnlock around the reply) or (GetState,
\* IsGameOver, (over: GetWinner)).
handlePlayerActionLocks(i, refused, over) ==
    <<LockOp("Lock", matchMu(i)), LockOp("Unlock", matchMu(i))>>
    \o gameWrite(i)
    \o (IF refused
        THEN <<LockOp("RLock", matchMu(i)), LockOp("RUnlock", matchMu(i))>>
        ELSE gameRead(i) \o gameRead(i) \o (IF over THEN gameRead(i) ELSE <<>>))

\* broadcastMessage: m.mu.RLock with a deferred RUnlock.
broadcastMessageLocks(i) ==
    <<LockOp("RLock", matchMu(i)), LockOp("RUnlock", matchMu(i))>>

\* The tick branch of Run: m.mu.RLock and RUnlock around len(m.Players).
RunTickLocks(i) ==
    <<LockOp("RLock", matchMu(i)), LockOp("RUnlock", matchMu(i))>>

\* CreateMatch: mm.mu.Lock and Unlock around the map write.
CreateMatchLocks == <<LockOp("Lock", mmMu), LockOp("Unlock", mmMu)>>

\* GetMatch: mm.mu.RLock with a deferred RUnlock.
GetMatchLocks == <<LockOp("RLock", mmMu), LockOp("RUnlock", mmMu)>>

\* FindOrCreateMatch with match i as waiting room: mm.mu.Lock, the waiting
\* room's mu.RLock and RUnlock, deferred mm.mu.Unlock.
FindOrCreateMatchLocks(i) ==
    <<LockOp("Lock", mmMu), LockOp("RLock", matchMu(i)),
      LockOp("RUnlock", matchMu(i)), LockOp("Unlock", mmMu)>>

\* HandleGetMatch: GetMatch, then match.Game.GetState().
HandleGetMatchLocks(i) == GetMatchLocks \o gameRead(i)

\* The body of the loops over mm.matches in CleanupInactiveMatches and in
\* HandleListMatches, for the matches 1..n one after the other: match.mu.RLock,
\* a read of the game (IsGameOver, GetState), match.mu.RUnlock.
RECURSIVE eachMatchLocks(_)
eachMatchLocks(n) ==
    IF n = 0 THEN <<>>
    ELSE eachMatchLocks(n - 1)
         \o <<LockOp("RLock", matchMu(n))>> \o gameRead(n)
         \o <<LockOp("RUnlock", matchMu(n))>>

\* A sweep that reads the first match before it takes the directory's lock.
CleanupInactiveMatchesLocks_MatchFirst ==
    <<LockOp("RLock", matchMu(1)), LockOp("Lock", mmMu)>> \o gameRead(1)
    \o <<LockOp("RUnlock", matchMu(1)), LockOp("Unlock", mmMu)>>

\* CleanupInactiveMatches: mm.mu.Lock, every match in turn, deferred Unlock.
CleanupInactiveMatchesLocks ==
    <<LockOp("Lock", mmMu)>> \o eachMatchLocks(LockMatches)
    \o <<LockOp("Unlock", mmMu)>>

\* HandleListMatches: mm.mu.RLock, every match in turn, deferred RUnlock.
HandleListMatchesLocks ==
    <<LockOp("RLock", mmMu)>> \o eachMatchLocks(LockMatches)
    \o <<LockOp("RUnlock", mmMu)>>

\* A goroutine between two calls.
Idle == [prog |-> <<>>, at |-> 1, want |-> FALSE]

\* The locks a goroutine holds after the first n operations of prog, in the
\* order it acquired them.
RECURSIVE heldAfter(_, _)
heldAfter(prog, n) ==
    IF n = 0 THEN <<>>
    ELSE LET h == heldAfter(prog, n - 1)
             o == prog[n]
         IN  IF o.op \in {"Lock", "RLock"} THEN Append(h, o)
             ELSE SelectSeq(h, LAMBDA e : e.on # o.on)

VARIABLES
    match,          \* the match of Spec: game, registry, started flag, last activity
    Broadcast,      \* m.Broadcast: messages waiting for the loop to fan them out
    PlayerActions,  \* m.PlayerActions: actions waiting for the loop
    conns,          \* the connections: participant id, Send mailbox, closed, phase
    loopPc,         \* where Run is: in its select, parked in a handler, or returned
    todo,           \* the sends the parked handler still has to make
    applied,        \* history: arrival stamps of the actions handled, in order
    last,           \* history: the event the loop handled last
    actors,         \* SpecDir: every match created so far, id -> match
    mm,             \* SpecDir: the MatchManager, its map's keys and waitingRoom
    stopped,        \* SpecDir: the ids of the matches whose Run has returned
    found,          \* history: the id the last FindOrCreateMatch returned
    created,        \* history: the ids CreateMatch returned
    threads,        \* SpecLocks: each goroutine's lock operations and position
    dir             \* SpecDir: joins on their way, clocks, sweep, backlogs

vars == <<match, Broadcast, PlayerActions, conns, loopPc, todo, applied, last,
          actors, mm, stopped, found, created, threads, dir>>

actorVars == <<match, Broadcast, PlayerActions, conns, loopPc, todo, applied, last>>
dirVars == <<actors, mm, stopped, found, created, threads, dir>>

\* admitted is history: the loop has handled the join and AddPlayer accepted it.
\* behind is history: how many of the broadcasts that were queued on
\* m.Broadcast when the connection's last private message (joined, error)
\* was sent, all of them produced by earlier events, the loop has not taken
\* from m.Broadcast yet.
NewConn == [PlayerID |-> NoPlayer, Send |-> <<>>, closed |-> FALSE, phase |-> "new",
            wp |-> "running", admitted |-> FALSE, behind |-> 0]

\* Participant ids are opaque strings that the code only compares: a new
\* connection presents an id already presented or the next unused one.
Presented(cs) == {cs[c].PlayerID : c \in DOMAIN cs} \ {NoPlayer}
MayPresent(cs, playerID) == playerID <= Cardinality(Presented(cs)) + 1

NoEvent == [op |-> "none", conn |-> 0, pid |-> NoPlayer, err |-> ErrNil,
            roll |-> 0]

\* The connections parked on `match.Register <- playerConn` (unbuffered).
Register == {c \in ConnIds : conns[c].phase = "registering"}
\* The connections parked on `match.Unregister <- playerConn` (unbuffered).
Unregister == {c \in ConnIds : conns[c].phase = "unregistering"}

InitActor ==
    /\ match = NewMatch(WinScore)
    /\ Broadcast = <<>>
    /\ PlayerActions = <<>>
    /\ conns = [c \in ConnIds |-> NewConn]
    /\ loopPc = "select"
    /\ todo = <<>>
    /\ applied = <<>>
    /\ last = NoEvent

\* The bookkeeping of SpecDir: the matches on whose Register a connection
\* waits, the order of the clocks, the entries the running sweep has
\* to visit, whether mm.mu is held for ever, and for every match the number
\* of messages on its m.Broadcast, whether its loop waits in a handler's
\* send ("mu": for ever, with m.mu locked; "free": for ever, with m.mu free;
\* "rlock": on a connection's full mailbox, with m.mu read-locked), the action
\* its handlePlayerAction has taken and not yet applied, and the joins,
\* leaves and actions handled.
NoAction == [PlayerID |-> NoPlayer, Action |-> "", conn |-> 0, stamp |-> 0]

NewDir ==
    [pending |-> {}, order |-> <<>>, sweep |-> {}, held |-> FALSE,
     backlog |-> [i \in 1..MaxMatches |-> 0],
     parked |-> [i \in 1..MaxMatches |-> "no"],
     acting |-> [i \in 1..MaxMatches |-> NoAction],
     ops |-> 0]

InitDir ==
    /\ actors = <<>>
    /\ mm = NewMatchManager
    /\ stopped = {}
    /\ found = NoMatch
    /\ created = {}
    /\ threads = [t \in ThreadIds |-> Idle]
    /\ dir = NewDir

Init == InitActor /\ InitDir

InitGame ==
    /\ InitDir
    /\ match = NewMatch(WinScore)
    /\ Broadcast = <<>>
    /\ PlayerActions = <<>>
    /\ conns = [c \in GameConnIds |-> NewConn]
    /\ loopPc = "select"
    /\ todo = <<>>
    /\ applied = <<>>
    /\ last = NoEvent

\* m.mu, the lock of the match, as the loop holds it: handleRegister and
\* handleUnregister keep the write lock until they return (defer m.mu.Unlock),
\* handlePlayerAction keeps the read lock around `conn.Send <- errorMsg` and
\* no lock around `m.Broadcast <- responseMsg`.
mu ==
    IF loopPc \in {"handleRegister", "handleUnregister"} THEN "Lock"
    ELSE IF loopPc = "handlePlayerAction" /\ todo # <<>> /\ todo[1].to # 0
         THEN "RLock"
         ELSE "free"

\* handleRegister writes m.IsStarted after its joined and update sends: while
\* one of these is among the sends still to make, the flag is not written.
beforeStart(left) == \E i \in DOMAIN left : left[i].msg.Type # TypeGameStart

\* The loop leaves a handler: it makes the handler's sends until one parks it.
\* A handleRegister that has passed its update send starts the match if the
\* game can start.
finish(handler, m, sends, cs) ==
    LET r == runSends(sends, Broadcast, cs)
    IN  /\ match' = IF handler = "handleRegister" /\ sends # <<>>
                    THEN [m EXCEPT !.IsStarted = IF beforeStart(r.todo)
                                                 THEN match.IsStarted
                                                 ELSE @ \/ CanStart(m.Game)]
                    ELSE m
        /\ Broadcast' = r.Broadcast
        /\ conns' = r.conns
        /\ todo' = r.todo
        /\ loopPc' = IF r.todo = <<>> THEN "select" ELSE handler

\* ----------------------------------------------------------- connections
\* HandleWebSocket: a new connection presents a participant id and sends
\* itself on m.Register.
HandleWebSocket(c, playerID) ==
    /\ conns[c].phase = "new"
    /\ MayPresent(conns, playerID)
    /\ \A d \in 1..(c - 1) : conns[d].phase # "new"
    /\ conns' = [conns EXCEPT ![c].PlayerID = playerID, ![c].phase = "registering"]
    /\ UNCHANGED <<match, Broadcast, PlayerActions, loopPc, todo, applied, last>>
    /\ UNCHANGED dirVars

\* readPump: a message with an action arrives and is sent on m.PlayerActions;
\* the send waits for room in the mailbox.
readPump(c, verb) ==
    /\ conns[c].phase = "open"
    /\ Len(applied) + Len(PlayerActions) < MaxActions
    /\ inputs(PlayerActions, applied, conns) < MaxInputs
    /\ Len(PlayerActions) < ActionsCap
    /\ PlayerActions' = Append(PlayerActions,
            [PlayerID |-> conns[c].PlayerID, Action |-> verb, conn |-> c,
             stamp |-> Len(applied) + Len(PlayerActions) + 1])
    /\ UNCHANGED <<match, Broadcast, conns, loopPc, todo, applied, last>>
    /\ UNCHANGED dirVars

\* readPump's deferred function: the read failed, the connection sends itself
\* on m.Unregister.
readPumpExit(c) ==
    /\ conns[c].phase = "open"
    /\ conns' = [conns EXCEPT ![c].phase = "unregistering"]
    /\ UNCHANGED <<match, Broadcast, PlayerActions, loopPc, todo, applied, last>>
    /\ UNCHANGED dirVars

\* writePump takes one message from the Send mailbox: the receive of its
\* select (`case message, ok := <-playerConn.Send`) or one of the receives that
\* follow it (`n := len(playerConn.Send)`, then n times
\* `nextMsg := <-playerConn.Send`). The n messages counted are in the mailbox
\* when they are counted and only the pump takes messages out, so none of
\* these receives waits, and the loop may send or drop between any two of
\* them. Which messages share one websocket frame is not recorded.
writePump(c) ==
    /\ conns[c].phase \notin {"new", "registering"}
    /\ conns[c].wp = "running"
    /\ conns[c].Send # <<>>
    /\ conns' = [conns EXCEPT ![c].Send = Tail(@)]
    /\ UNCHANGED <<match, Broadcast, PlayerActions, loopPc, todo, applied, last>>
    /\ UNCHANGED dirVars

\* writePump returns: the mailbox is closed and empty (`!ok`), or a write to
\* the socket fails (NextWriter, w.Close, the ping of the ticker). What is in
\* the mailbox stays there.
writePumpReturn(c) ==
    /\ conns[c].phase \notin {"new", "registering"}
    /\ conns[c].wp = "running"
    /\ Cardinality({d \in DOMAIN conns : conns[d].wp = "returned"}) < MaxReturns
    /\ inputs(PlayerActions, applied, conns) < MaxInputs
    /\ conns' = [conns EXCEPT ![c].wp = "returned"]
    /\ UNCHANGED <<match, Broadcast, PlayerActions, loopPc, todo, applied, last>>
    /\ UNCHANGED dirVars

\* ------------------------------------------------------------------- Run
\* case conn := <-m.Register
RunRegister(c) ==
    /\ loopPc = "select"
    /\ c \in Register
    /\ LET r == handleRegister(match, c, conns[c].PlayerID)
       IN  /\ finish("handleRegister", r.m, r.sends,
                     [conns EXCEPT ![c].phase = "open",
                                   ![c].admitted = (r.err = ErrNil),
                                   ![c].behind = IF r.err = ErrNil
                                                 THEN Len(Broadcast) ELSE 0])
           /\ last' = [op |-> "join", conn |-> c, pid |-> conns[c].PlayerID,
                       err |-> r.err, roll |-> 0]
    /\ UNCHANGED <<PlayerActions, applied>>
    /\ UNCHANGED dirVars

\* case conn := <-m.Unregister
RunUnregister(c) ==
    /\ loopPc = "select"
    /\ c \in Unregister
    /\ LET r == handleUnregister(match, c, conns[c].PlayerID)
       IN  /\ finish("handleUnregister", r.m, r.sends,
                     [conns EXCEPT ![c].phase = "done",
                                   ![c].closed = r.closed])
           /\ last' = [op |-> "leave", conn |-> c, pid |-> conns[c].PlayerID,
                       err |-> IF r.closed THEN ErrNil ELSE ErrInvalidPlayer,
                       roll |-> 0]
    /\ UNCHANGED <<PlayerActions, applied>>
    /\ UNCHANGED dirVars

\* A receive that takes the action queued last.
receiveAction_Newest(q) == [head |-> q[Len(q)], rest |-> SubSeq(q, 1, Len(q) - 1)]

\* `action := <-m.PlayerActions`: the receive takes the action queued first.
receiveAction(q) == [head |-> Head(q), rest |-> Tail(q)]

\* case action := <-m.PlayerActions
RunPlayerAction(roll) ==
    /\ loopPc = "select"
    /\ PlayerActions # <<>>
    /\ LET a == receiveAction(PlayerActions).head
           r == handlePlayerAction(match, a, roll)
       IN  /\ a.Action = ActionRoll \/ roll = 1
           /\ finish("handlePlayerAction", r.m, r.sends,
                     IF r.sends # <<>> /\ r.sends[1].to # 0
                     THEN [conns EXCEPT ![r.sends[1].to].behind = Len(Broadcast)]
                     ELSE conns)
           /\ PlayerActions' = receiveAction(PlayerActions).rest
           /\ applied' = Append(applied, a.stamp)
           /\ last' = [op |-> a.Action, conn |-> a.conn, pid |-> a.PlayerID,
                       err |-> r.err,
                       roll |-> IF a.Action = ActionRoll /\ r.err = ErrNil
                                THEN roll ELSE 0]
    /\ UNCHANGED dirVars

\* case message := <-m.Broadcast
RunBroadcast ==
    /\ loopPc = "select"
    /\ Broadcast # <<>>
    /\ conns' = [c \in DOMAIN conns |->
                    [broadcastMessage(match, conns, Head(Broadcast))[c]
                        EXCEPT !.behind = IF @ > 0 THEN @ - 1 ELSE 0]]
    /\ Broadcast' = Tail(Broadcast)
    /\ UNCHANGED <<match, PlayerActions, loopPc, todo, applied, last>>
    /\ UNCHANGED dirVars

\* A tick that stops the loop of an idle match whether connections are
\* registered or not.
RunTick_IdleOnly ==
    /\ loopPc = "select"
    /\ match.Idle > IdleGrace
    /\ loopPc' = "stopped"
    /\ UNCHANGED <<match, Broadcast, PlayerActions, conns, todo, applied, last>>
    /\ UNCHANGED dirVars

\* case <-ticker.C
RunTick ==
    /\ loopPc = "select"
    /\ Cardinality(DOMAIN match.Players) = 0
    /\ match.Idle > IdleGrace
    /\ loopPc' = "stopped"
    /\ UNCHANGED <<match, Broadcast, PlayerActions, conns, todo, applied, last>>
    /\ UNCHANGED dirVars

\* A handler parked on a full channel goes on once the channel has room.
RunResume ==
    /\ loopPc \in {"handleRegister", "handleUnregister", "handlePlayerAction"}
    /\ runSends(todo, Broadcast, conns).todo # todo
    /\ finish(loopPc, match, todo, conns)
    /\ UNCHANGED <<PlayerActions, applied, last>>
    /\ UNCHANGED dirVars

\* Time passes: the five minutes of Run are over.
Clock ==
    /\ match.Idle <= IdleGrace
    /\ match' = [match EXCEPT !.Idle = @ + 1]
    /\ UNCHANGED <<Broadcast, PlayerActions, conns, loopPc, todo, applied, last>>
    /\ UNCHANGED dirVars

Verbs == {ActionRoll, ActionHold, ActionOther}

Next ==
    \/ \E c \in ConnIds, p \in PlayerIds : HandleWebSocket(c, p)
    \/ \E c \in ConnIds, v \in Verbs : readPump(c, v)
    \/ \E c \in ConnIds : readPumpExit(c)
    \/ \E c \in ConnIds : writePump(c)
    \/ \E c \in ConnIds : writePumpReturn(c)
    \/ \E c \in ConnIds : RunRegister(c)
    \/ \E c \in ConnIds : RunUnregister(c)
    \/ \E roll \in Faces : RunPlayerAction(roll)
    \/ RunBroadcast
    \/ RunTick
    \/ RunResume
    \/ Clock

Spec == Init /\ [][Next]_vars

\* The ticker keeps firing (every 30 seconds), so a loop that is waiting in
\* its select with the tick case ready eventually takes it.
SpecFair == Spec /\ WF_vars(RunTick)

\* --------------------------------------------------------------- SpecGame
\* The loop handles the join of a new connection.
GameJoin(c, playerID) ==
    /\ conns[c].phase = "new"
    /\ MayPresent(conns, playerID)
    /\ \A d \in 1..(c - 1) : conns[d].phase # "new"
    /\ LET r == handleRegister(match, c, playerID)
       IN  /\ match' = r.m
           /\ conns' = [conns EXCEPT ![c].PlayerID = playerID, ![c].phase = "open",
                                     ![c].admitted = (r.err = ErrNil)]
           /\ last' = [op |-> "join", conn |-> c, pid |-> playerID,
                       err |-> r.err, roll |-> 0]
    /\ UNCHANGED <<Broadcast, PlayerActions, loopPc, todo, applied>>
    /\ UNCHANGED dirVars

\* The loop handles the leave of a connection whose join it has handled.
GameLeave(c) ==
    /\ conns[c].phase = "open"
    /\ LET r == handleUnregister(match, c, conns[c].PlayerID)
       IN  /\ match' = r.m
           /\ conns' = [conns EXCEPT ![c].phase = "done", ![c].closed = r.closed]
           /\ last' = [op |-> "leave", conn |-> c, pid |-> conns[c].PlayerID,
                       err |-> IF r.closed THEN ErrNil ELSE ErrInvalidPlayer,
                       roll |-> 0]
    /\ UNCHANGED <<Broadcast, PlayerActions, loopPc, todo, applied>>
    /\ UNCHANGED dirVars

\* The loop handles an action that connection c submitted (possibly before
\* its leave, which the select may have taken first).
GameAction(c, verb, roll) ==
    /\ conns[c].phase \in {"open", "done"}
    /\ Len(applied) < GameActions
    /\ roll = 1 \/ (verb = ActionRoll /\ turnCheck(match.Game, conns[c].PlayerID) = ErrNil)
    /\ LET a == [PlayerID |-> conns[c].PlayerID, Action |-> verb, conn |-> c,
                 stamp |-> Len(applied) + 1]
           r == handlePlayerAction(match, a, roll)
       IN  /\ match' = r.m
           /\ applied' = Append(applied, a.stamp)
           /\ last' = [op |-> verb, conn |-> c, pid |-> a.PlayerID, err |-> r.err,
                       roll |-> IF verb = ActionRoll /\ r.err = ErrNil
                                THEN roll ELSE 0]
    /\ UNCHANGED <<Broadcast, PlayerActions, conns, loopPc, todo>>
    /\ UNCHANGED dirVars

NextGame ==
    \/ \E c \in GameConnIds, p \in GamePlayerIds : GameJoin(c, p)
    \/ \E c \in GameConnIds : GameLeave(c)
    \/ \E c \in GameConnIds, v \in Verbs, roll \in 1..DieFaces : GameAction(c, v, roll)

SpecGame == InitGame /\ [][NextGame]_vars

\* ---------------------------------------------------------------- SpecPig
\* The game on its own, called as its tests call it: any method, for any
\* participant id, in any order. The game is match.Game; last records the
\* call made last and what it returned, applied counts the calls. Participant
\* ids are only compared: a call names an id the game has or the next new one.
PigPlayerIds == 1..PigIds

PigArg(playerID) ==
    /\ Len(applied) < PigCalls
    /\ playerID <= Len(match.Game.Players) + 1

PigDone(op, playerID, state, err, roll) ==
    /\ match' = [match EXCEPT !.Game = state]
    /\ last' = [op |-> op, conn |-> 0, pid |-> playerID, err |-> err, roll |-> roll]
    /\ applied' = Append(applied, Len(applied) + 1)
    /\ UNCHANGED <<Broadcast, PlayerActions, conns, loopPc, todo>>
    /\ UNCHANGED dirVars

PigAddPlayer(playerID) ==
    /\ PigArg(playerID)
    /\ LET r == AddPlayer(match.Game, playerID)
       IN  PigDone("AddPlayer", playerID, r.state, r.err, 0)

PigRemovePlayer(playerID) ==
    /\ PigArg(playerID)
    /\ LET r == RemovePlayer(match.Game, playerID)
       IN  PigDone("RemovePlayer", playerID, r.state, r.err, 0)

PigStart ==
    /\ PigArg(NoPlayer)
    /\ PigDone("Start", NoPlayer, match.Game, Start(match.Game), 0)

PigRoll(playerID, roll) ==
    /\ PigArg(playerID)
    /\ LET r == Roll(match.Game, playerID, roll)
       IN  /\ r.err = ErrNil \/ roll = 1
           /\ PigDone("Roll", playerID, r.state, r.err, r.roll)

PigHold(playerID) ==
    /\ PigArg(playerID)
    /\ LET r == Hold(match.Game, playerID)
       IN  PigDone("Hold", playerID, r.state, r.err, 0)

NextPig ==
    \/ \E p \in PigPlayerIds : PigAddPlayer(p)
    \/ \E p \in PigPlayerIds : PigRemovePlayer(p)
    \/ PigStart
    \/ \E p \in PigPlayerIds, roll \in 1..DieFaces : PigRoll(p, roll)
    \/ \E p \in PigPlayerIds : PigHold(p)

SpecPig == InitGame /\ [][NextPig]_vars

\* ---------------------------------------------------------------- SpecDir
\* The actor variables of Spec stay as InitActor leaves them. The registry of
\* SpecDir records the participant id in place of the connection, and the
\* connections' mailboxes are left out: a private message is taken to be sent.
\*
\* Time. Every match has its own LastActivityAt; dir.order lists the matches
\* whose clock is still read (by the sweep or by the loop), the one active
\* longest ago first.
\*
\* mm.mu. dir.sweep holds the entries the running sweep has still to visit
\* (empty: no sweep is running); dir.held says that a caller waits, holding
\* mm.mu, for the lock of a match whose handler waits for ever. Otherwise
\* mm.mu is free: every other caller takes and releases it within its step.
MmFree == dir.sweep = {} /\ ~dir.held

moveToEnd(ord, id) == Append(SelectSeq(ord, LAMBDA i : i # id), id)
\* The matches whose LastActivityAt is still read.
clocked(ord, m, st) == SelectSeq(ord, LAMBDA i : i \in m.matches \/ i \notin st)
\* The sends of a handler that go to m.Broadcast.
broadcasts(sends) == Cardinality({i \in DOMAIN sends : sends[i].to = 0})

\* The loop of match id is in its select.
Ready(id) ==
    /\ id \in DOMAIN actors
    /\ id \notin stopped
    /\ dir.parked[id] = "no"
    /\ dir.acting[id] = NoAction

\* The loop of match id has run a handler that leaves the match as m and
\* makes the given sends; d is the rest of the directory's bookkeeping. A
\* broadcast that finds m.Broadcast full is never made: only the loop takes
\* from m.Broadcast. lock tells whether the handler holds m.mu meanwhile.
handled(id, m, sends, lock, d) ==
    LET k == broadcasts(sends)
        room == DirBroadcastCap - dir.backlog[id]
    IN  /\ dir.ops < DirOps
        /\ actors' = [actors EXCEPT ![id] = m]
        /\ dir' = [d EXCEPT !.backlog[id] = IF k > room THEN DirBroadcastCap ELSE @ + k,
                            !.parked[id] = IF k > room THEN lock ELSE "no",
                            !.order = moveToEnd(@, id),
                            !.ops = @ + 1]

\* HandleJoinMatch: POST /api/match/join. FindOrCreateMatch reads the waiting
\* room under its m.mu.RLock while it holds mm.mu.
HandleJoinMatch ==
    /\ MmFree
    /\ IF mm.waitingRoom # NoMatch /\ dir.parked[mm.waitingRoom] = "mu"
       THEN /\ dir' = [dir EXCEPT !.held = TRUE]
            /\ UNCHANGED <<mm, actors, found>>
       ELSE LET r == FindOrCreateMatch(mm, actors, WinScore)
            IN  /\ Len(r.all) <= MaxMatches
                /\ mm' = r.mm
                /\ actors' = r.all
                /\ found' = r.match
                /\ dir' = [dir EXCEPT !.order = IF Len(r.all) > Len(actors)
                                                THEN Append(@, r.match) ELSE @]
    /\ UNCHANGED <<stopped, created, threads>>
    /\ UNCHANGED actorVars

\* HandleCreateMatch: POST /api/match/create.
HandleCreateMatch ==
    LET r == CreateMatch(mm, actors, WinScore)
    IN  /\ MmFree
        /\ Len(r.all) <= MaxMatches
        /\ mm' = r.mm
        /\ actors' = r.all
        /\ created' = created \cup {r.match}
        /\ dir' = [dir EXCEPT !.order = Append(@, r.match)]
        /\ UNCHANGED <<stopped, found, threads>>
        /\ UNCHANGED actorVars

\* The participants admitted to the first n matches of all.
RECURSIVE AdmittedIn(_, _)
AdmittedIn(all, n) ==
    IF n = 0 THEN 0 ELSE Len(all[n].Game.Players) + AdmittedIn(all, n - 1)

\* HandleWebSocket: the connection finds the match in the directory (GetMatch)
\* and goes on to upgrade and to send itself on match.Register.
DirLookup(id) ==
    /\ MmFree
    /\ GetMatch(mm, id).exists
    /\ id \notin dir.pending
    /\ Cardinality(dir.pending) < DirPending
    /\ dir' = [dir EXCEPT !.pending = @ \cup {id}]
    /\ UNCHANGED <<actors, mm, stopped, found, created, threads>>
    /\ UNCHANGED actorVars

\* case conn := <-m.Register of the loop of match id: it handles the join of
\* a connection that found the match earlier. The participant id the
\* connection was opened with is first read here; ids are only compared, so a
\* match is joined by an id it has seen or by the next new one.
DirJoin(id, playerID) ==
    /\ id \in dir.pending
    /\ Ready(id)
    /\ playerID <= Len(actors[id].Game.Players) + 1
    /\ LET r == handleRegister(actors[id], playerID, playerID)
           waits == r.sends # <<>> /\ dir.backlog[id] = DirBroadcastCap
           m == IF waits THEN [r.m EXCEPT !.IsStarted = actors[id].IsStarted]
                ELSE r.m
       IN  handled(id, m, r.sends, "mu", [dir EXCEPT !.pending = @ \ {id}])
    /\ AdmittedIn(actors', Len(actors')) <= DirAdmitted
    /\ UNCHANGED <<mm, stopped, found, created, threads>>
    /\ UNCHANGED actorVars

\* case conn := <-m.Unregister: the leave of a registered connection.
DirLeave(id, playerID) ==
    /\ Ready(id)
    /\ playerID \in DOMAIN actors[id].Players
    /\ LET r == handleUnregister(actors[id], playerID, playerID)
       IN  handled(id, r.m, r.sends, "mu", dir)
    /\ UNCHANGED <<mm, stopped, found, created, threads>>
    /\ UNCHANGED actorVars

\* case action := <-m.PlayerActions: an action of a connection that joined
\* under playerID (it may have left since: its actions stay in the mailbox).
\* handlePlayerAction begins: m.mu.Lock(), m.LastActivityAt = time.Now(),
\* m.mu.Unlock(). The game is not touched yet and m.mu is free again.
DirAction(id, playerID, verb) ==
    /\ Ready(id)
    /\ dir.ops < DirOps
    /\ playerID \in 1..Len(actors[id].Game.Players)
    /\ actors' = [actors EXCEPT ![id].Idle = 0]
    /\ dir' = [dir EXCEPT !.acting[id] = [PlayerID |-> playerID, Action |-> verb,
                                          conn |-> playerID, stamp |-> 0],
                          !.order = moveToEnd(@, id),
                          !.ops = @ + 1]
    /\ UNCHANGED <<mm, stopped, found, created, threads>>
    /\ UNCHANGED actorVars

\* handlePlayerAction goes on: the switch calls the game (Roll, Hold) and the
\* handler sends. The time of the last activity is not written again. The
\* error of a refused action goes to the connection registered under the
\* participant id, a blocking send under m.mu.RLock: full says that the
\* mailbox is full, and the handler waits there. The broadcast of an
\* accepted action is sent with m.mu free; finding m.Broadcast full it is
\* never made, since only the loop takes from m.Broadcast.
DirActionGame(id, roll, full) ==
    /\ id \in DOMAIN actors
    /\ dir.acting[id] # NoAction
    /\ LET a == dir.acting[id]
           r == handlePlayerAction(actors[id], a, roll)
           k == broadcasts(r.sends)
           room == DirBroadcastCap - dir.backlog[id]
           private == r.sends # <<>> /\ r.sends[1].to # 0
       IN  /\ roll = 1 \/ (a.Action = ActionRoll
                            /\ turnCheck(actors[id].Game, a.PlayerID) = ErrNil)
           /\ full => private
           /\ actors' = [actors EXCEPT ![id] = [r.m EXCEPT !.Idle = actors[id].Idle]]
           /\ dir' = [dir EXCEPT !.acting[id] = NoAction,
                                 !.backlog[id] = IF k > room THEN DirBroadcastCap
                                                 ELSE @ + k,
                                 !.parked[id] = IF full THEN "rlock"
                                                ELSE IF k > room THEN "free"
                                                ELSE "no"]
    /\ UNCHANGED <<mm, stopped, found, created, threads>>
    /\ UNCHANGED actorVars

\* writePump takes a message from the mailbox the handler waits on: the send
\* of the error is made, m.mu.RUnlock() follows and the loop is back in its
\* select.
DirDrain(id) ==
    /\ dir.parked[id] = "rlock"
    /\ dir' = [dir EXCEPT !.parked[id] = "no"]
    /\ UNCHANGED <<actors, mm, stopped, found, created, threads>>
    /\ UNCHANGED actorVars

\* case message := <-m.Broadcast: the loop takes a broadcast and fans it out.
DirBroadcast(id) ==
    /\ Ready(id)
    /\ dir.backlog[id] > 0
    /\ dir' = [dir EXCEPT !.backlog[id] = @ - 1]
    /\ UNCHANGED <<actors, mm, stopped, found, created, threads>>
    /\ UNCHANGED actorVars

\* The tick of Run decides for match m: Run returns.
stops(m) == Cardinality(DOMAIN m.Players) = 0 /\ m.Idle > IdleGrace

\* case <-ticker.C of the loop of match id (every 30 seconds).
DirTick(id) ==
    /\ Ready(id)
    /\ stops(actors[id])
    /\ stopped' = stopped \cup {id}
    /\ dir' = [dir EXCEPT !.order = clocked(@, mm, stopped')]
    /\ UNCHANGED <<actors, mm, found, created, threads>>
    /\ UNCHANGED actorVars

\* The largest m.Idle that is told apart for match id: the sweep reads the
\* clock of an entry, Run the clock of any match.
top(id) == IF id \in mm.matches THEN SweepTimeout + 1 ELSE IdleGrace + 1

\* Time passes for the k-th match of dir.order: its five minutes are over,
\* or its thirty. A match active earlier is past each of them earlier. A
\* sweep reads the time once, before its loop (`now := time.Now()`), and goes
\* through the entries without a wait unless it waits for ever: no time
\* passes while it runs.
DirClock ==
    \E k \in 1..Len(dir.order) :
        LET id == dir.order[k]
            n == actors[id].Idle + 1
        IN  /\ dir.sweep = {} \/ dir.held
            /\ n <= top(id)
            /\ \A j \in 1..(k - 1) :
                  LET o == dir.order[j]
                  IN  actors[o].Idle >= n \/ actors[o].Idle = top(o)
            /\ actors' = [actors EXCEPT ![id].Idle = n]
            /\ UNCHANGED <<mm, stopped, found, created, threads, dir>>
            /\ UNCHANGED actorVars

\* The cleanup routine of main (its ticker fires every five minutes) calls
\* CleanupInactiveMatches with a timeout of 30 minutes: mm.mu.Lock(), and the
\* loop over mm.matches is about to begin. (With no entry the call locks and
\* unlocks.)
CleanupBegin ==
    /\ MmFree
    /\ mm.matches # {}
    /\ dir' = [dir EXCEPT !.sweep = mm.matches]
    /\ UNCHANGED <<actors, mm, stopped, found, created, threads>>
    /\ UNCHANGED actorVars

\* The sweep visits the entry id, in whatever order the map yields, under the
\* match's m.mu.RLock; after the last entry the deferred mm.mu.Unlock() runs.
Cleanup(id) ==
    /\ ~dir.held
    /\ id \in dir.sweep
    /\ dir.parked[id] # "mu"
    /\ mm' = CleanupInactiveMatches(mm, actors, SweepTimeout, id)
    /\ dir' = [dir EXCEPT !.sweep = @ \ {id},
                          !.order = clocked(@, mm', stopped)]
    /\ UNCHANGED <<actors, stopped, found, created, threads>>
    /\ UNCHANGED actorVars

\* The sweep comes to an entry whose handler waits for ever with m.mu locked:
\* match.mu.RLock() never returns, and mm.mu stays locked.
CleanupBlock(id) ==
    /\ ~dir.held
    /\ id \in dir.sweep
    /\ dir.parked[id] = "mu"
    /\ dir' = [dir EXCEPT !.held = TRUE]
    /\ UNCHANGED <<actors, mm, stopped, found, created, threads>>
    /\ UNCHANGED actorVars

NextDir ==
    \/ HandleJoinMatch
    \/ HandleCreateMatch
    \/ \E id \in 1..MaxMatches : DirLookup(id)
    \/ \E id \in 1..MaxMatches, p \in DirPlayerIds : DirJoin(id, p)
    \/ \E id \in 1..MaxMatches, p \in DirPlayerIds : DirLeave(id, p)
    \/ \E id \in 1..MaxMatches, p \in DirPlayerIds, v \in Verbs : DirAction(id, p, v)
    \/ \E id \in 1..MaxMatches, roll \in Faces, full \in BOOLEAN :
          DirActionGame(id, roll, full)
    \/ \E id \in 1..MaxMatches : DirDrain(id)
    \/ \E id \in 1..MaxMatches : DirBroadcast(id)
    \/ \E id \in 1..MaxMatches : DirTick(id)
    \/ DirClock
    \/ CleanupBegin
    \/ \E id \in 1..MaxMatches : Cleanup(id)
    \/ \E id \in 1..MaxMatches : CleanupBlock(id)

SpecDir == Init /\ [][NextDir]_vars

\* SpecDir with time that goes on and with a cleanup routine whose ticker
\* keeps firing and which goes on whenever the lock it asks for is free.
SpecDirFair ==
    /\ SpecDir
    /\ WF_vars(DirClock)
    /\ WF_vars(CleanupBegin)
    /\ \A id \in 1..MaxMatches : WF_vars(Cleanup(id))

\* ---------------------------------------------------------------- SpecApi
\* A caller of the MatchManager removes a match by id, present or not.
DirRemove(id) ==
    /\ MmFree
    /\ mm' = RemoveMatch(mm, id)
    /\ dir' = [dir EXCEPT !.order = clocked(@, mm', stopped)]
    /\ UNCHANGED <<actors, stopped, found, created, threads>>
    /\ UNCHANGED actorVars

NextApi ==
    \/ NextDir
    \/ \E id \in 1..MaxMatches : DirRemove(id)

\* SpecDir with RemoveMatch, which the MatchManager exports, called as well.
SpecApi == Init /\ [][NextApi]_vars

\* --------------------------------------------------------------- SpecLocks
Held(t) == heldAfter(threads[t].prog, threads[t].at - 1)
Busy(t) == threads[t].prog # <<>>
NextOp(t) == threads[t].prog[threads[t].at]
HoldsAny(u, lock) == \E k \in DOMAIN Held(u) : Held(u)[k].on = lock
HoldsWrite(u, lock) == \E k \in DOMAIN Held(u) : Held(u)[k] = LockOp("Lock", lock)
\* Goroutine u has called Lock on the lock and waits for it: sync.RWMutex
\* makes later RLock calls wait behind a waiting writer.
Pending(u, lock) == Busy(u) /\ threads[u].want /\ NextOp(u) = LockOp("Lock", lock)

\* The goroutine has done its operation: on to the next, or back from the call.
advance(t) ==
    threads' = [threads EXCEPT ![t] =
                    IF threads[t].at = Len(threads[t].prog) THEN Idle
                    ELSE [@ EXCEPT !.at = @ + 1, !.want = FALSE]]

lockFrame ==
    /\ UNCHANGED actorVars
    /\ UNCHANGED <<actors, mm, stopped, found, created, dir>>

\* Run of match t takes an event: a join, a leave, an action, a broadcast or
\* a tick.
LoopCall(t) ==
    /\ ~Busy(t)
    /\ \E prog \in {handleRegisterLocks(t, FALSE, FALSE),
                    handleRegisterLocks(t, TRUE, FALSE),
                    handleRegisterLocks(t, TRUE, TRUE),
                    handleUnregisterLocks(t, FALSE, FALSE),
                    handleUnregisterLocks(t, TRUE, FALSE),
                    handleUnregisterLocks(t, TRUE, TRUE),
                    handlePlayerActionLocks(t, TRUE, FALSE),
                    handlePlayerActionLocks(t, FALSE, FALSE),
                    handlePlayerActionLocks(t, FALSE, TRUE),
                    broadcastMessageLocks(t), RunTickLocks(t)} :
          threads' = [threads EXCEPT ![t] = [Idle EXCEPT !.prog = prog]]
    /\ lockFrame

\* A request or the cleanup routine calls the directory.
DirCall(t) ==
    /\ ~Busy(t)
    /\ \E prog \in {CreateMatchLocks, GetMatchLocks, CleanupInactiveMatchesLocks,
                    HandleListMatchesLocks}
                   \cup {FindOrCreateMatchLocks(i) : i \in 1..LockMatches}
                   \cup {HandleGetMatchLocks(i) : i \in 1..LockMatches} :
          threads' = [threads EXCEPT ![t] = [Idle EXCEPT !.prog = prog]]
    /\ lockFrame

\* The goroutine calls Lock and starts to wait.
muLockCall(t) ==
    /\ Busy(t) /\ NextOp(t).op = "Lock" /\ ~threads[t].want
    /\ threads' = [threads EXCEPT ![t].want = TRUE]
    /\ lockFrame

\* Lock returns: nobody else holds the lock.
muLock(t) ==
    /\ Busy(t) /\ NextOp(t).op = "Lock" /\ threads[t].want
    /\ \A u \in ThreadIds \ {t} : ~HoldsAny(u, NextOp(t).on)
    /\ advance(t)
    /\ lockFrame

\* RLock returns: nobody else holds the lock for writing or waits to.
muRLock(t) ==
    /\ Busy(t) /\ NextOp(t).op = "RLock"
    /\ \A u \in ThreadIds \ {t} :
          ~HoldsWrite(u, NextOp(t).on) /\ ~Pending(u, NextOp(t).on)
    /\ advance(t)
    /\ lockFrame

\* Unlock, RUnlock.
muUnlock(t) ==
    /\ Busy(t) /\ NextOp(t).op \in {"Unlock", "RUnlock"}
    /\ advance(t)
    /\ lockFrame

NextLocks ==
    \/ \E t \in LoopThreads : LoopCall(t)
    \/ \E t \in CallerThreads : DirCall(t)
    \/ \E t \in ThreadIds : muLockCall(t)
    \/ \E t \in ThreadIds : muLock(t)
    \/ \E t \in ThreadIds : muRLock(t)
    \/ \E t \in ThreadIds : muUnlock(t)

SpecLocks == Init /\ [][NextLocks]_vars

\* ================================================================ claims
\* -------------------------------------------------- helpers of the claims
Totals(g) == [i \in 1..Len(g.Players) |-> g.Players[i].Score]

\* The first active participant met scanning the list cyclically forward from
\* the position after the current-turn index (0-based, as CurrentPlayer).
NextActive(g) ==
    LET n == Len(g.Players)
        k == CHOOSE k \in 1..n :
                /\ g.Players[((g.CurrentPlayer + k) % n) + 1].IsActive
                /\ \A j \in 1..(k - 1) :
                       ~g.Players[((g.CurrentPlayer + j) % n) + 1].IsActive
    IN  (g.CurrentPlayer + k) % n

\* The step is the loop handling an action.
ActionStep == Len(applied') = Len(applied) + 1
\* The step is the loop handling the leave of a connection.
LeaveStep == \E c \in DOMAIN conns : conns[c].phase # "done" /\ conns'[c].phase = "done"

\* C1: a Roll accepted from the current-turn participant of a started, not-over
\* session leaves every total unchanged; if it draws 1 the accumulator becomes 0
\* and the turn passes to the next active participant, another one; if it draws
\* 2..6 the accumulator grows by exactly the value drawn and the turn stays.
C1_RollEffect ==
    [][(ActionStep /\ last'.op = ActionRoll /\ last'.err = ErrNil) =>
        LET g == match.Game
            h == match'.Game
        IN  /\ g.Players[g.CurrentPlayer + 1].ID = last'.pid
            /\ ~g.IsGameOver /\ Len(g.Players) >= 2
            /\ last'.roll \in 1..DieFaces
            /\ Totals(h) = Totals(g)
            /\ last'.roll = 1 =>
                  /\ h.TurnScore = 0
                  /\ h.CurrentPlayer = NextActive(g)
                  /\ h.CurrentPlayer # g.CurrentPlayer
            /\ last'.roll # 1 =>
                  /\ h.TurnScore = g.TurnScore + last'.roll
                  /\ h.CurrentPlayer = g.CurrentPlayer]_vars

\* C1 witness: the participant at index 0 rolled a 1 with the participant at
\* index 1 departed, and the turn is at index 2.
C1_Witness ==
    /\ last.op = ActionRoll /\ last.err = ErrNil /\ last.roll = 1
    /\ Len(match.Game.Players) = 3
    /\ match.Game.Players[1].ID = last.pid
    /\ ~match.Game.Players[2].IsActive
    /\ match.Game.CurrentPlayer = 2
    /\ match.Game.TurnScore = 0

\* C2: a Hold accepted from the current-turn participant whose total plus the
\* accumulator stays below the target adds exactly the accumulator to the
\* holder's total, changes no other total, zeroes the accumulator and passes
\* the turn to the next active participant.
C2_HoldEffect ==
    [][(ActionStep /\ last'.op = ActionHold /\ last'.err = ErrNil) =>
        LET g == match.Game
            h == match'.Game
            cp == g.CurrentPlayer + 1
        IN  /\ g.Players[cp].ID = last'.pid
            /\ g.Players[cp].Score + g.TurnScore < g.WinningScore =>
                  /\ Totals(h) = [Totals(g) EXCEPT ![cp] = @ + g.TurnScore]
                  /\ h.TurnScore = 0
                  /\ h.CurrentPlayer = NextActive(g)
                  /\ h.CurrentPlayer # g.CurrentPlayer
                  /\ ~h.IsGameOver]_vars

\* C2 witness: a participant has just banked a positive accumulator below the
\* target and the turn is with someone else.
C2_Witness ==
    /\ last.op = ActionHold /\ last.err = ErrNil
    /\ ~match.Game.IsGameOver
    /\ \E i \in 1..Len(match.Game.Players) :
          /\ match.Game.Players[i].ID = last.pid
          /\ match.Game.Players[i].Score > 0
          /\ match.Game.CurrentPlayer # i - 1
    /\ match.Game.TurnScore = 0

\* C3: a Hold that brings the holder's total to the target or above ends the
\* session with the holder as winner and leaves the turn where it is; a session
\* that is over stays over; and every Roll or Hold handled while the session is
\* over is rejected with the game-over error and changes nothing in the game.
C3_HoldWins ==
    /\ [][(ActionStep /\ last'.op = ActionHold /\ last'.err = ErrNil) =>
            LET g == match.Game
                h == match'.Game
                cp == g.CurrentPlayer + 1
            IN  g.Players[cp].Score + g.TurnScore >= g.WinningScore =>
                   /\ h.IsGameOver
                   /\ h.Winner = g.Players[cp].ID
                   /\ h.Winner = last'.pid
                   /\ h.CurrentPlayer = g.CurrentPlayer
                   /\ h.Players[cp].Score = g.Players[cp].Score + g.TurnScore]_vars
    /\ [][match.Game.IsGameOver => match'.Game.IsGameOver]_vars
    /\ [][(ActionStep /\ match.Game.IsGameOver) =>
            /\ last'.op \in {ActionRoll, ActionHold} => last'.err = ErrGameOver
            /\ match'.Game = match.Game]_vars

\* C3 witness: the session was won by a Hold and an action submitted after
\* that was rejected with the game-over error.
C3_Witness ==
    /\ last.op \in {ActionRoll, ActionHold}
    /\ last.err = ErrGameOver
    /\ match.Game.IsGameOver
    /\ \E i \in 1..Len(match.Game.Players) :
          /\ match.Game.Players[i].ID = match.Game.Winner
          /\ match.Game.Players[i].Score >= match.Game.WinningScore
          /\ match.Game.CurrentPlayer = i - 1

\* C4: no event lowers a participant's total: the list keeps its participants
\* in place and every total is at least what it was.
C4_TotalsNeverDecrease ==
    [][/\ Len(match'.Game.Players) >= Len(match.Game.Players)
       /\ \A i \in 1..Len(match.Game.Players) :
             /\ match'.Game.Players[i].ID = match.Game.Players[i].ID
             /\ match'.Game.Players[i].Score >= match.Game.Players[i].Score]_vars

\* C4 witness: a participant with a positive total has departed.
C4_Witness ==
    /\ last.op = "leave" /\ last.err = ErrNil
    /\ \E i \in 1..Len(match.Game.Players) :
          /\ match.Game.Players[i].ID = last.pid
          /\ ~match.Game.Players[i].IsActive
          /\ match.Game.Players[i].Score > 0

\* C5: in a session that at least two participants ever joined, the departure
\* that brings the number of active participants from two to one ends the
\* session with the one remaining active participant as winner.
C5_LastOneWins ==
    [][(LeaveStep /\ Len(match.Game.Players) >= 2
                  /\ GetActivePlayerCount(match.Game) = 2
                  /\ GetActivePlayerCount(match'.Game) = 1) =>
        /\ match'.Game.IsGameOver
        /\ \A i \in ActiveIndexes(match'.Game) :
              match'.Game.Winner = match'.Game.Players[i].ID]_vars

\* C5 witness: a departure has left exactly one of three participants active
\* and the session is over.
C5_Witness ==
    /\ last.op = "leave" /\ last.err = ErrNil
    /\ Len(match.Game.Players) = 3
    /\ GetActivePlayerCount(match.Game) = 1
    /\ match.Game.IsGameOver
    /\ \E i \in ActiveIndexes(match.Game) :
          match.Game.Winner = match.Game.Players[i].ID

\* The loop is parked inside a handler on a send to a connection's mailbox.
ParkedOnConn ==
    /\ loopPc \in {"handleRegister", "handleUnregister", "handlePlayerAction"}
    /\ todo # <<>>
    /\ Head(todo).to # 0

\* C6: actions are applied one at a time in the order in which they entered the
\* action mailbox: the actions handled so far are the first, the second, ... to
\* have arrived, the ones waiting follow in arrival order, the game changes only
\* in a step the loop takes from its select, and the verdict on each roll or
\* hold is the one the game state of that very moment gives (an action that is
\* neither leaves the game as it is).
C6_ArrivalOrder ==
    /\ [](/\ \A i \in 1..Len(applied) : applied[i] = i
          /\ \A i \in 1..Len(PlayerActions) :
                PlayerActions[i].stamp = Len(applied) + i)
    /\ [][match'.Game # match.Game => loopPc = "select"]_vars
    /\ [][ActionStep =>
            /\ last'.conn = PlayerActions[1].conn
            /\ IF last'.op \in {ActionRoll, ActionHold}
               THEN last'.err = turnCheck(match.Game, last'.pid)
               ELSE match'.Game = match.Game]_vars

\* C6 witness: the participants of two connections both rolled; the roll of the
\* turn holder came first and drew a 6, the roll of the other came second and
\* was judged against the state the first left (still not its turn).
C6_Witness ==
    /\ applied = <<1, 2>>
    /\ last.op = ActionRoll /\ last.err = ErrNotPlayerTurn /\ last.conn = 2
    /\ conns[1].PlayerID # conns[2].PlayerID
    /\ match.Game.TurnScore = DieFaces
    /\ match.Game.Players[match.Game.CurrentPlayer + 1].ID = conns[1].PlayerID

\* C7 as claimed: a failing roll or hold of a connection that is open (its join
\* was handled, it has not left) gets an error message on that connection's
\* mailbox (enqueued, or being sent by the parked handler), no other mailbox
\* changes and nothing is put on Broadcast.
C7_ErrorToOriginator ==
    [][(ActionStep /\ last'.err # ErrNil /\ conns[last'.conn].phase = "open") =>
        LET c == last'.conn
            msg == NewMessage(TypeError, last'.pid, last'.err)
        IN  /\ Broadcast' = Broadcast
            /\ \/ conns'[c].Send = Append(conns[c].Send, msg)
               \/ todo' = <<ToConn(c, msg)>>
            /\ \A d \in ConnIds \ {c} : conns'[d].Send = conns[d].Send]_vars

\* C9 as claimed: the loop is never parked on a send to a connection's mailbox.
C9_NeverParkedOnConn == ~ParkedOnConn

\* C10 as claimed: a connection that is submitting a join or a leave always
\* finds the loop in its select, ready to receive it.
C10_SubmitNeverWaits ==
    \A c \in ConnIds : c \in Register \cup Unregister => loopPc = "select"

\* C8 as claimed: a FindOrCreateMatch call returns the session the previous
\* call returned unless a participant has joined that session.
C8_SameUntilJoined ==
    [][(found' # found /\ found # NoMatch) => Len(actors[found].Game.Players) > 0]_vars

\* C8 amended: a FindOrCreateMatch call returns the session the previous call
\* returned unless a participant has joined that session or the sweep has
\* removed it from the directory; and whenever the open session has started or
\* is at capacity, the call creates a session with an id never used before,
\* registers it and makes it the open session.
C8_SameUntilJoinedOrSwept ==
    /\ [][(found' # found /\ found # NoMatch) =>
            \/ Len(actors[found].Game.Players) > 0
            \/ found \notin mm.matches]_vars
    /\ [][found' # found =>
            /\ found' = Len(actors) + 1
            /\ mm'.waitingRoom = found'
            /\ found' \in mm'.matches
            /\ ~actors'[found'].IsStarted]_vars
    /\ [](/\ mm.waitingRoom # NoMatch
          /\ \/ actors[mm.waitingRoom].IsStarted
             \/ Cardinality(DOMAIN actors[mm.waitingRoom].Players) >= MaxPlayers
          => LET r == FindOrCreateMatch(mm, actors, WinScore)
             IN  /\ r.match = Len(actors) + 1
                 /\ r.match \notin DOMAIN actors
                 /\ r.mm.waitingRoom = r.match)

\* C8 witness: the first open session started with two participants, and the
\* call that followed returned a second session, now the open one.
C8_Witness ==
    /\ found = 2
    /\ mm.waitingRoom = 2
    /\ 1 \in mm.matches
    /\ actors[1].IsStarted
    /\ Cardinality(DOMAIN actors[1].Players) = MinPlayers
    /\ Len(actors[2].Game.Players) = 0

\* C11 as claimed: with time going on and the cleanup routine going on
\* whenever the locks it asks for are free, a match of the directory with no
\* registered connection and no activity for longer than the eviction timeout
\* is eventually removed from the directory; and a match the directory has
\* lost is never found by a lookup again.
C11_IdleEventuallySwept ==
    /\ \A id \in 1..MaxMatches :
          (/\ GetMatch(mm, id).exists
           /\ Cardinality(DOMAIN actors[id].Players) = 0
           /\ actors[id].Idle > SweepTimeout)
          ~> ~GetMatch(mm, id).exists
    /\ [][\A id \in DOMAIN actors :
            ~GetMatch(mm, id).exists => ~GetMatch(mm', id).exists]_vars

\* C12 as claimed: in every state of the session the winner is set exactly
\* when the session is over.
C12_WinnerIffOver ==
    (match.Game.Winner # NoPlayer) <=> match.Game.IsGameOver

\* C13: while a session that somebody joined is not over, the current-turn
\* index addresses an active participant; and a departure that leaves no
\* active participant leaves the session over.
C13_TurnAddressesActive ==
    /\ [](LET g == match.Game
          IN  (Len(g.Players) >= 1 /\ ~g.IsGameOver) =>
                 /\ g.CurrentPlayer \in 0..(Len(g.Players) - 1)
                 /\ g.Players[g.CurrentPlayer + 1].IsActive)
    /\ [][(LeaveStep /\ GetActivePlayerCount(match.Game) > 0
                     /\ GetActivePlayerCount(match'.Game) = 0) =>
            match'.Game.IsGameOver]_vars

\* C13 witness: the turn holder of three participants departed and the turn
\* is with an active participant of a session that is not over.
C13_Witness ==
    /\ last.op = "leave" /\ last.err = ErrNil
    /\ Len(match.Game.Players) = 3
    /\ ~match.Game.IsGameOver
    /\ match.Game.Players[1].ID = last.pid
    /\ ~match.Game.Players[1].IsActive
    /\ match.Game.CurrentPlayer = 1
    /\ match.Game.Players[2].IsActive

\* C14 as claimed: whenever the turn passes to another participant (by a
\* forfeit roll, by a hold or by the departure of the turn holder) or the game
\* ends by a hold, the accumulator is 0 afterwards.
C14_AccumulatorZeroOnPass ==
    [][(\/ match'.Game.CurrentPlayer # match.Game.CurrentPlayer
        \/ (ActionStep /\ last'.op = ActionHold /\ last'.err = ErrNil)) =>
        match'.Game.TurnScore = 0]_vars

\* The step is the loop handling the join of connection c.
JoinStep(c) == conns[c].phase = "registering" /\ conns'[c].phase = "open"

\* C15 as claimed: a join rejected because the session is at capacity or the
\* participant id is already present puts an error message on the joining
\* connection's mailbox (or has the handler sending it) and nowhere else, and
\* the connection is discarded: its mailbox is closed.
C15_RejectedJoinAnswered ==
    [][\A c \in ConnIds :
        (JoinStep(c) /\ last'.err \in {ErrGameFull, ErrPlayerInGame}) =>
            LET msg == NewMessage(TypeError, conns[c].PlayerID, last'.err)
            IN  /\ \/ conns'[c].Send = Append(conns[c].Send, msg)
                   \/ todo' = <<ToConn(c, msg)>>
                /\ Broadcast' = Broadcast
                /\ conns'[c].closed]_vars

\* C16 as claimed: a rejected join leaves the game, the started flag and the
\* registry participant id -> connection as they were; the connection that
\* was registered under the participant id is still registered.
C16_RejectedJoinChangesNothing ==
    [][\A c \in ConnIds :
        (JoinStep(c) /\ last'.err # ErrNil) =>
            /\ match'.Game = match.Game
            /\ match'.IsStarted = match.IsStarted
            /\ match'.Players = match.Players]_vars

\* The number of messages of type t in the sequence q.
CountType(q, t) == Cardinality({i \in 1..Len(q) : q[i].Type = t})

\* C17 as claimed: handling an accepted join registers the connection, puts
\* the joined message on the joiner's mailbox and then puts on m.Broadcast
\* the update, followed by the start broadcast exactly if this join admits
\* the second participant; no other step puts a start broadcast on
\* m.Broadcast, and none is put there once the match is started.
C17_JoinSendsAndStartsOnce ==
    /\ [][\A c \in ConnIds :
            (JoinStep(c) /\ last'.err = ErrNil) =>
               LET pid == conns[c].PlayerID
                   update == NewMessage(TypeGameUpdate, NoPlayer, ErrNil)
                   start == NewMessage(TypeGameStart, NoPlayer, ErrNil)
               IN  /\ pid \in DOMAIN match'.Players
                   /\ match'.Players[pid] = c
                   /\ conns'[c].Send =
                         Append(conns[c].Send, NewMessage(TypeJoined, pid, ErrNil))
                   /\ Broadcast' =
                         Broadcast \o
                         (IF Len(match'.Game.Players) = 2
                          THEN <<update, start>> ELSE <<update>>)]_vars
    /\ [][CountType(Broadcast', TypeGameStart) > CountType(Broadcast, TypeGameStart) =>
            /\ \E c \in ConnIds : JoinStep(c) /\ last'.err = ErrNil
            /\ Len(match.Game.Players) = 1
            /\ Len(match'.Game.Players) = 2
            /\ ~match.IsStarted]_vars
    /\ [][match.IsStarted => match'.IsStarted]_vars

\* The step is the loop handling the leave of connection c.
UnregisterStep(c) == conns[c].phase = "unregistering" /\ conns'[c].phase = "done"

\* C18 as claimed: handling the leave of a registered connection removes it
\* from the registry, marks its participant departed (RemovePlayer), closes
\* its mailbox and puts on m.Broadcast the left broadcast, followed at once by
\* the over broadcast exactly if the game is over after the departure;
\* m.Broadcast only ever loses its first message or gains messages at its
\* end, so nothing comes between the two.
C18_LeaveSends ==
    /\ [][\A c \in ConnIds :
            (UnregisterStep(c) /\ conns[c].PlayerID \in DOMAIN match.Players) =>
               LET pid == conns[c].PlayerID
                   left == NewMessage(TypePlayerLeft, pid, ErrNil)
                   over == NewMessage(TypeGameOver, NoPlayer, ErrNil)
               IN  /\ match.Players[pid] = c
                   /\ pid \notin DOMAIN match'.Players
                   /\ match'.Game = RemovePlayer(match.Game, pid).state
                   /\ ~match'.Game.Players[IndexOf(match'.Game, pid)].IsActive
                   /\ conns'[c].closed
                   /\ Broadcast' =
                         Broadcast \o
                         (IF match'.Game.IsGameOver
                          THEN <<left, over>> ELSE <<left>>)]_vars
    /\ [][\/ Broadcast # <<>> /\ Broadcast' = Tail(Broadcast)
          \/ /\ Len(Broadcast') >= Len(Broadcast)
             /\ SubSeq(Broadcast', 1, Len(Broadcast)) = Broadcast]_vars

\* C19: with a ticker that keeps firing, once the registry is empty and the
\* last activity lies further back than the grace window, the loop eventually
\* terminates (or activity arrives first and the precondition ends).
C19_IdleLoopTerminates ==
    (Cardinality(DOMAIN match.Players) = 0 /\ match.Idle > IdleGrace)
        ~> (\/ loopPc = "stopped"
            \/ ~(Cardinality(DOMAIN match.Players) = 0 /\ match.Idle > IdleGrace))

\* C20: every CreateMatch call stores a new match under an id no match had
\* before and leaves its loop running; the matches stored before, their
\* entries in the directory and the waiting room stay as they were; and
\* neither the waiting room nor the match FindOrCreateMatch returned last is
\* ever a match CreateMatch made.
C20_CreateIsSeparate ==
    /\ [][created' # created =>
            LET id == Len(actors) + 1
            IN  /\ created' = created \cup {id}
                /\ id \notin DOMAIN actors
                /\ ~GetMatch(mm, id).exists
                /\ GetMatch(mm', id).exists
                /\ mm'.matches = mm.matches \cup {id}
                /\ mm'.waitingRoom = mm.waitingRoom
                /\ actors' = Append(actors, NewMatch(WinScore))
                /\ id \notin stopped'
                /\ stopped' = stopped
                /\ found' = found]_vars
    /\ [](found \notin created /\ mm.waitingRoom \notin created)

\* C20 witness: CreateMatch made match 1, a later FindOrCreateMatch call made
\* and returned match 2, and the directory holds both.
C20_Witness ==
    /\ created = {1}
    /\ found = 2
    /\ mm.waitingRoom = 2
    /\ mm.matches = {1, 2}

\* The step is the sweep's visit of the entry id.
SweepStep(id) == id \in dir.sweep /\ dir'.sweep = dir.sweep \ {id}

\* C21: the sweep removes from the directory exactly the entries it finds with
\* a last activity older than the timeout or with a game that is over and an
\* empty registry, keeps every other entry, clears the waiting room exactly if
\* it removes it, changes no match (game, registry, started flag, time of the
\* last activity) and stops no loop: a loop stops only by its own idle
\* condition; and nothing else takes an entry out of the directory.
C21_SweepRemovesExactly ==
    /\ [][\A id \in 1..MaxMatches : SweepStep(id) =>
             LET old == \/ actors[id].Idle > SweepTimeout
                        \/ /\ actors[id].Game.IsGameOver
                           /\ DOMAIN actors[id].Players = {}
             IN  /\ id \in mm.matches
                 /\ mm'.matches = IF old THEN mm.matches \ {id} ELSE mm.matches
                 /\ mm'.waitingRoom = IF old /\ mm.waitingRoom = id
                                      THEN NoMatch ELSE mm.waitingRoom
                 /\ actors' = actors
                 /\ stopped' = stopped
                 /\ found' = found /\ created' = created]_vars
    /\ [][mm.matches \ mm'.matches # {} => \E id \in 1..MaxMatches : SweepStep(id)]_vars
    /\ [][\A id \in stopped' \ stopped : stops(actors[id])]_vars

\* C21 witness: the sweep has removed a finished, deserted match from the
\* directory and kept the other entry it visited, and the loop of the removed
\* match still runs.
C21_Witness ==
    \E id \in DOMAIN actors :
        /\ id \notin mm.matches
        /\ id \notin stopped
        /\ actors[id].Game.IsGameOver
        /\ actors[id].Idle <= SweepTimeout
        /\ mm.matches # {}
        /\ dir.sweep = {}
        /\ ~dir.held

\* C22: FindOrCreateMatch and CleanupInactiveMatches, which take m.mu.RLock
\* of a match while they hold the lock of the directory, never have to wait
\* for it: the loop of the match never waits on a channel with m.mu
\* write-locked.
C22_DirectoryNeverWaits == mu # "Lock"

\* C23: the directory has one waiting room at most, and the waiting room, if
\* there is one, is an entry of the directory; whenever entries leave the
\* directory (RemoveMatch, sweep) and the waiting room is among them, the
\* waiting room is cleared, and otherwise it stays.
C23_WaitingRoomIsAnEntry ==
    /\ [](/\ Cardinality({id \in DOMAIN actors : mm.waitingRoom = id}) <= 1
          /\ mm.waitingRoom = NoMatch \/ GetMatch(mm, mm.waitingRoom).exists)
    /\ [][mm.matches \ mm'.matches # {} =>
            mm'.waitingRoom = IF mm.waitingRoom \in mm.matches \ mm'.matches
                              THEN NoMatch ELSE mm.waitingRoom]_vars

\* C23 witness: RemoveMatch has removed the waiting room (a match nobody
\* joined and too young for the sweep) and the directory has no waiting room.
C23_Witness ==
    /\ found # NoMatch
    /\ ~GetMatch(mm, found).exists
    /\ Len(actors[found].Game.Players) = 0
    /\ actors[found].Idle <= SweepTimeout
    /\ mm.waitingRoom = NoMatch

\* The step is a call of the game's method op.
PigCall(op) == applied' # applied /\ last'.op = op

\* C24: AddPlayer fails and leaves the game as it was if the game is over, if
\* the list holds four participants (active or not) or if the id is in the
\* list; otherwise it succeeds and appends the participant, active and with
\* no points, at the end of the list, changing nothing else. The list never
\* holds more than four participants.
C24_AddPlayerChecks ==
    /\ [][PigCall("AddPlayer") =>
            LET g == match.Game
                id == last'.pid
                refused == \/ g.IsGameOver
                           \/ Len(g.Players) >= 4
                           \/ \E i \in 1..Len(g.Players) : g.Players[i].ID = id
            IN  IF refused
                THEN last'.err # ErrNil /\ match'.Game = g
                ELSE /\ last'.err = ErrNil
                     /\ match'.Game.Players =
                            g.Players \o <<[ID |-> id, Score |-> 0, IsActive |-> TRUE]>>
                     /\ match'.Game = [g EXCEPT !.Players = match'.Game.Players]]_vars
    /\ [](Len(match.Game.Players) <= 4)

\* C24 witness: AddPlayer was refused for a fifth participant although one of
\* the four in the list has departed and the game goes on.
C24_Witness ==
    /\ last.op = "AddPlayer"
    /\ last.err = ErrGameFull
    /\ Len(match.Game.Players) = 4
    /\ GetActivePlayerCount(match.Game) = 3
    /\ ~match.Game.IsGameOver

\* C25: Roll and Hold return an error and leave the whole game (list, totals,
\* turn index, accumulator, last roll, over flag, winner) as it was when the
\* game has not started (fewer than two participants), is over, the caller
\* does not hold the turn, or the caller has departed.
C25_RefusedTurnChangesNothing ==
    [][(PigCall("Roll") \/ PigCall("Hold")) =>
         LET g == match.Game
             id == last'.pid
             refused ==
                \/ Len(g.Players) < 2
                \/ g.IsGameOver
                \/ g.Players[g.CurrentPlayer + 1].ID # id
                \/ \E i \in 1..Len(g.Players) :
                      g.Players[i].ID = id /\ ~g.Players[i].IsActive
         IN  refused => (last'.err # ErrNil /\ last'.roll = 0 /\ match'.Game = g)]_vars

\* C25 witness: a roll was refused to a departed participant while the turn
\* holder of the started game has points in the accumulator.
C25_Witness ==
    /\ last.op = "Roll"
    /\ last.err # ErrNil
    /\ \E i \in 1..Len(match.Game.Players) :
          match.Game.Players[i].ID = last.pid /\ ~match.Game.Players[i].IsActive
    /\ ~match.Game.IsGameOver
    /\ match.Game.TurnScore > 0

\* C26: RemovePlayer for an id the list does not hold returns ErrInvalidPlayer
\* and leaves the game as it was. For an id of the list it succeeds, makes
\* that participant inactive and leaves the list otherwise as it was (length,
\* order, ids, totals, the other active flags); if the participant held the
\* turn and an active participant remains, the turn goes to the next active
\* participant after it, and if it did not hold the turn, the turn stays.
C26_RemovePlayerEffect ==
    [][PigCall("RemovePlayer") =>
         LET g == match.Game
             h == match'.Game
             id == last'.pid
         IN  IF \A i \in 1..Len(g.Players) : g.Players[i].ID # id
             THEN last'.err = ErrInvalidPlayer /\ h = g
             ELSE LET i == CHOOSE i \in 1..Len(g.Players) : g.Players[i].ID = id
                  IN  /\ last'.err = ErrNil
                      /\ h.Players = [g.Players EXCEPT ![i].IsActive = FALSE]
                      /\ (i - 1 # g.CurrentPlayer) => h.CurrentPlayer = g.CurrentPlayer
                      /\ (i - 1 = g.CurrentPlayer /\ ActiveIndexes(h) # {}) =>
                            h.CurrentPlayer =
                               NextActive([h EXCEPT !.CurrentPlayer = g.CurrentPlayer])]_vars

\* C26 witness: the turn holder, first of three participants, was removed and
\* the turn went past the second, who had departed before, to the third.
C26_Witness ==
    /\ last.op = "RemovePlayer" /\ last.err = ErrNil
    /\ Len(match.Game.Players) = 3
    /\ last.pid = match.Game.Players[1].ID
    /\ ~match.Game.Players[1].IsActive
    /\ ~match.Game.Players[2].IsActive
    /\ match.Game.Players[3].IsActive
    /\ match.Game.CurrentPlayer = 2

\* C27 as stated: Start returns ErrNotEnoughPlayers whenever fewer than two
\* participants have joined and succeeds whenever two or more have, and no
\* call of Start changes the game.
C27_StartNeedsTwo ==
    [][PigCall("Start") =>
         /\ Len(match.Game.Players) < 2 => last'.err = ErrNotEnoughPlayers
         /\ Len(match.Game.Players) >= 2 => last'.err = ErrNil
         /\ match'.Game = match.Game]_vars

\* C27 amended: Start returns ErrNotEnoughPlayers whenever fewer than two
\* participants have joined; with two or more it returns ErrGameOver if the
\* game is over and succeeds otherwise; no call of Start, the first or a
\* later one, changes the game (participants, totals, turn index,
\* accumulator).
C27_StartNeedsTwoAndNotOver ==
    [][PigCall("Start") =>
         /\ last'.err = IF Len(match.Game.Players) < 2 THEN ErrNotEnoughPlayers
                        ELSE IF match.Game.IsGameOver THEN ErrGameOver
                        ELSE ErrNil
         /\ match'.Game = match.Game]_vars

\* C27 witness: Start was called again, with success, on a game in progress:
\* the turn has moved on from the first participant and the accumulator
\* holds points.
C27_Witness ==
    /\ last.op = "Start" /\ last.err = ErrNil
    /\ match.Game.CurrentPlayer > 0
    /\ match.Game.TurnScore > 0
    /\ ~match.Game.IsGameOver

\* The step is a call that advances the turn: a roll of the forfeit face, a
\* hold that does not win, or the removal of the turn holder.
TurnAdvances ==
    \/ PigCall("Roll") /\ last'.err = ErrNil /\ last'.roll = 1
    \/ PigCall("Hold") /\ last'.err = ErrNil /\ ~match'.Game.IsGameOver
    \/ /\ PigCall("RemovePlayer") /\ last'.err = ErrNil
       /\ match.Game.Players[match.Game.CurrentPlayer + 1].ID = last'.pid

\* C28: whenever the turn advances, or the turn index changes at all, and an
\* active participant is left, the new turn index is the first active
\* participant met scanning the list cyclically forward from the position
\* after the old index: departed participants are skipped, no active one is.
C28_NextTurnIsFirstActive ==
    [][((TurnAdvances \/ match'.Game.CurrentPlayer # match.Game.CurrentPlayer)
          /\ ActiveIndexes(match'.Game) # {}) =>
         /\ match'.Game.CurrentPlayer =
               NextActive([match'.Game EXCEPT !.CurrentPlayer = match.Game.CurrentPlayer])
         /\ match'.Game.Players[match'.Game.CurrentPlayer + 1].IsActive]_vars

\* C28 witness: the fourth of four participants rolled the forfeit face and
\* the turn wrapped around past the first, who has departed, to the second.
C28_Witness ==
    /\ last.op = "Roll" /\ last.err = ErrNil /\ last.roll = 1
    /\ Len(match.Game.Players) = 4
    /\ last.pid = match.Game.Players[4].ID
    /\ ~match.Game.Players[1].IsActive
    /\ match.Game.CurrentPlayer = 1
    /\ ~match.Game.IsGameOver

\* C29: in every step the participant list keeps its participants at their
\* positions with their ids, grows by at most one participant and only at
\* its end, never loses a participant, departed or not, and no participant
\* who is inactive becomes active.
C29_MembershipMonotone ==
    [][LET old == match.Game.Players
           new == match'.Game.Players
       IN  /\ Len(old) <= Len(new) /\ Len(new) <= Len(old) + 1
           /\ \A i \in 1..Len(old) :
                 /\ new[i].ID = old[i].ID
                 /\ ~old[i].IsActive => ~new[i].IsActive
           /\ \A i \in 1..Len(new), j \in 1..Len(new) :
                 new[i].ID = new[j].ID => i = j]_vars

\* C29 witness: a participant departed, stays second in the list of three
\* while the game goes on, and AddPlayer under the same id was refused.
C29_Witness ==
    /\ last.op = "AddPlayer" /\ last.err = ErrPlayerInGame
    /\ Len(match.Game.Players) = 3
    /\ match.Game.Players[2].ID = last.pid
    /\ ~match.Game.Players[2].IsActive
    /\ ~match.Game.IsGameOver

\* C30: the match FindOrCreateMatch returns, whenever it is called, has a
\* game that is not over, so that AddPlayer can admit the caller.
C30_FoundIsNotOver ==
    LET r == FindOrCreateMatch(mm, actors, WinScore)
    IN  /\ ~IsGameOver(r.all[r.match].Game)
        /\ AddPlayer(r.all[r.match].Game, Len(r.all[r.match].Game.Players) + 1).err = ErrNil

\* The ids of the participants that are active in game g.
ActiveIds(g) == {g.Players[i].ID : i \in ActiveIndexes(g)}

\* C31: between two events the loop handles, the participant ids of the
\* registry are the ids of the participants active in the game.
C31_RegistryIsActive == Registered(match) = ActiveIds(match.Game)

\* C32: an action submitted over a connection whose join was rejected leaves
\* the game as it was.
C32_RejectedNeverPlays ==
    [][(ActionStep /\ ~conns[last'.conn].admitted) => match'.Game = match.Game]_vars

\* C33: once the game is over with a winner, no step gives it another winner
\* or none.
C33_WinnerIsFinal ==
    [][(match.Game.IsGameOver /\ match.Game.Winner # NoPlayer) =>
          match'.Game.Winner = match.Game.Winner]_vars

\* The step is the loop taking a message from m.Broadcast and fanning it out.
FanOutStep == Broadcast # <<>> /\ Broadcast' = Tail(Broadcast)

\* C34: a broadcast produced by an earlier event is never put into a
\* connection's mailbox after the private message (joined snapshot, error
\* reply) that a later event produced for that connection.
C34_EventOrderPerConnection ==
    [][FanOutStep =>
         \A c \in ConnIds : conns[c].behind > 0 => conns'[c].Send = conns[c].Send]_vars

\* C35: a handler never waits on the loop's own m.Broadcast: the loop is
\* never inside a handler whose next send is a broadcast that finds
\* m.Broadcast full.
C35_NeverParkedOnBroadcast ==
    ~(/\ loopPc \in {"handleRegister", "handleUnregister", "handlePlayerAction"}
      /\ todo # <<>>
      /\ todo[1].to = 0)

\* C36: every match the directory can return, by GetMatch or as the match
\* FindOrCreateMatch hands out, has a loop that runs: no match whose Run has
\* returned is an entry of the directory.
C36_DirectoryLoopsRun ==
    /\ \A id \in DOMAIN actors : GetMatch(mm, id).exists => id \notin stopped
    /\ FindOrCreateMatch(mm, actors, WinScore).match \notin stopped

\* C37: the loop returns only in a step in which the registry is empty (and
\* the last activity lies further back than the grace window), and the
\* registry of a match whose loop has returned is empty: however long a
\* match with a registered connection is idle, its loop goes on.
C37_NoStopWhileRegistered ==
    /\ [][(loopPc # "stopped" /\ loopPc' = "stopped") =>
            /\ Registered(match) = {}
            /\ match.Idle > IdleGrace
            /\ match' = match]_vars
    /\ [](loopPc = "stopped" => Registered(match) = {})

\* C37 witness: a connection is registered, the last activity lies further
\* back than the grace window, and the loop waits in its select.
C37_Witness ==
    /\ Registered(match) # {}
    /\ match.Idle > IdleGrace
    /\ loopPc = "select"
    /\ ~ENABLED RunTick

\* The step puts a message on the Send mailbox of connection c (writePump
\* only ever empties a mailbox).
SendStep(c) == Len(conns'[c].Send) > Len(conns[c].Send)
\* The step closes the Send mailbox of connection c.
CloseStep(c) == ~conns[c].closed /\ conns'[c].closed
\* Connection c is the registry's entry of some participant id.
InRegistry(m, c) == \E p \in Registered(m) : m.Players[p] = c

\* C38: a closed mailbox stays closed and receives nothing more; a mailbox is
\* closed only by the loop handling the leave of its connection, which was the
\* registry's entry of its participant id and is no entry afterwards; the leave
\* handler closes only a mailbox that is not closed yet; and every message put
\* on a mailbox goes to a connection that is in the registry or whose join the
\* loop is handling in that step.
C38_MailboxDiscipline ==
    [][\A c \in ConnIds :
        /\ conns[c].closed => (conns'[c].closed /\ ~SendStep(c))
        /\ CloseStep(c) =>
              /\ loopPc = "select" /\ UnregisterStep(c)
              /\ InRegistry(match, c)
              /\ ~InRegistry(match', c)
        /\ (UnregisterStep(c) /\ last'.err = ErrNil) => ~conns[c].closed
        /\ SendStep(c) => (InRegistry(match, c) \/ JoinStep(c))
        /\ SendStep(c) => (InRegistry(match', c) /\ ~conns'[c].closed)]_vars

\* C38 witness: the mailbox of one connection is closed, and the broadcast of
\* its departure lies in the mailbox of another connection, which is registered.
C38_Witness ==
    \E c, d \in ConnIds :
        /\ c # d
        /\ conns[c].closed
        /\ InRegistry(match, d)
        /\ \E i \in DOMAIN conns[d].Send :
              /\ conns[d].Send[i].Type = TypePlayerLeft
              /\ conns[d].Send[i].PlayerID = conns[c].PlayerID

\* The rank of a lock in the order directory, match, game.
Rank(lock) == CASE lock.kind = "mm" -> 1 [] lock.kind = "match" -> 2 [] lock.kind = "game" -> 3
\* Goroutine t waits for a lock that goroutine u keeps from it.
Blocks(u, t) ==
    /\ u # t
    /\ Busy(t)
    /\ \/ /\ NextOp(t).op = "Lock" /\ threads[t].want
          /\ HoldsAny(u, NextOp(t).on)
       \/ /\ NextOp(t).op = "RLock"
          /\ HoldsWrite(u, NextOp(t).on) \/ Pending(u, NextOp(t).on)

\* C39: every goroutine holds its locks in the order directory lock, match
\* lock, game lock, and asks only for a lock that comes later in that order
\* than every lock it holds; and there is no circular wait: no set of
\* goroutines in which each waits for a lock that another of the set keeps
\* from it.
C39_LockOrder ==
    /\ \A t \in ThreadIds :
          /\ \A j, k \in DOMAIN Held(t) :
                j < k => Rank(Held(t)[j].on) < Rank(Held(t)[k].on)
          /\ (Busy(t) /\ NextOp(t).op \in {"Lock", "RLock"}) =>
                \A k \in DOMAIN Held(t) : Rank(Held(t)[k].on) < Rank(NextOp(t).on)
    /\ ~\E S \in SUBSET ThreadIds :
          /\ S # {}
          /\ \A t \in S : \E u \in S : Blocks(u, t)

\* C39 witness: a directory call holds the directory lock, a match's lock and
\* its game's lock, while the loop of that match waits for the match's lock
\* and another directory call waits for the directory lock.
C39_Witness ==
    \E t, v \in CallerThreads, u \in LoopThreads :
        /\ Len(Held(t)) = 3
        /\ Held(t)[2].on = matchMu(u)
        /\ Blocks(t, u)
        /\ Blocks(t, v)

====
